---- MODULE Spec2Model ----
(***************************************************************************)
(* Passwordless authentication subsystem of the books tracker:             *)
(* backend/src/routes/auth.ts over the PostgreSQL tables of the schema,    *)
(* the in-memory challenge map and the JWT middleware.                     *)
(*                                                                         *)
(* Every route handler is an async function.  Node runs the code between   *)
(* two awaits without interruption, PostgreSQL runs each statement         *)
(* atomically, and everything else may interleave.  A handler is therefore *)
(* split into actions at its awaits.  An action is a database statement    *)
(* with the local code that follows it, or an access to the challenge map  *)
(* that follows an await.  Two consecutive statements are one action only  *)
(* where no other request can tell the difference:                         *)
(*   - a lookup that found a users row, followed by another statement      *)
(*     (users rows are never deleted or renamed, so the lookup gives the   *)
(*     same row when it is run right before the next statement);           *)
(*   - the statements of the register/verify transaction (under READ       *)
(*     COMMITTED nobody sees its writes before COMMIT, and the row and     *)
(*     unique-index locks it holds make its outcome the one it has when    *)
(*     all of it runs at the COMMIT);                                      *)
(*   - the count of the users rows followed by validateInvitationToken (a  *)
(*     positive count stays positive, and after a count of zero the token  *)
(*     is not validated);                                                  *)
(*   - a SELECT whose rows only fill a field of the response;              *)
(*   - an await of a computation on local values (bcrypt, the WebAuthn     *)
(*     verification), which reads no shared state.                         *)
(***************************************************************************)
EXTENDS Integers, Sequences, FiniteSets, TLC

\* ---------------------------------------------------------------- bounds
MaxUsers == 3
MaxReq == 2
MaxChallenges == 2
MaxCredentialIds == 3
MaxInvitations == 1
MaxSetupTokens == 1
MaxPresentedCode == 2
MaxCounter == 0
MaxTicks == 3
\* The highest signature counter an authenticator reports where counters count.
MaxSignCount == 2
MaxBooks == 11
\* The longest covers array of an Open Library edition.
MaxCovers == 2

\* ------------------------------------------------------ program constants
NumRecoveryCodes == 10
\* Time is counted in seconds: 7 days, 30 minutes, '30d'.
InvitationTTL == 7 * 24 * 60 * 60
SetupTokenTTL == 30 * 60
SessionTTL == 30 * 24 * 60 * 60
\* README: two "next up" short lists, no more than 10 each.
MaxNextUp == 10

\* ---------------------------------------------------------------- strings
\* A string is a sequence of atoms; an atom is a <<tag, number>> pair.
\* Template literals are concatenations of such sequences.
EmptyStr == <<>>
Str(tag, n) == << <<tag, n>> >>
Usernames == {Str("user", i) : i \in 1..MaxUsers}
CredentialIds == {Str("cred", i) : i \in 1..MaxCredentialIds}
InvitationTokenValues == {Str("invite", i) : i \in 1..MaxInvitations}
SetupTokenValues == {Str("setup", i) : i \in 1..MaxSetupTokens}
\* gen_random_uuid(): one fresh id per row; a row is identified by what makes
\* it unique in its table.
UserId(username) == Str("uuid-user", username[1][2])
PasskeyId(credentialID) == Str("uuid-passkey", credentialID[1][2])
InvitationId(n) == Str("uuid-invitation", n)
SetupTokenId(n) == Str("uuid-setup", n)

VARIABLES users, passkey_credentials, recovery_codes, invitation_tokens,
          setup_tokens, books, nextBook, challenges, nextChallenge, issued, now,
          ticks, server, req, response

\* The tables of the authentication subsystem.
db == <<users, passkey_credentials, recovery_codes, invitation_tokens, setup_tokens>>
vars == <<users, passkey_credentials, recovery_codes, invitation_tokens,
          setup_tokens, books, nextBook, challenges, nextChallenge, issued, now,
          ticks, server, req, response>>

\* -------------------------------------------------------- process startup
\* process.env.JWT_SECRET: undefined, or a string, of which the model keeps
\* the length.
UndefinedSecret == [defined |-> FALSE, length |-> 0]
SecretOfLength(n) == [defined |-> TRUE, length |-> n]
\* openssl rand -base64 32, the key the README sets: 44 characters.
GeneratedSecret == SecretOfLength(44)
\* The length the security review asks of the key (jwtSecret.length < 32).
MinSecretLength == 32
\* What the environment may hold: nothing, '', 'secret', a key one character
\* short of the minimum, and a generated key.
EnvSecrets ==
  {UndefinedSecret, SecretOfLength(0), SecretOfLength(6),
   SecretOfLength(MinSecretLength - 1), GeneratedSecret}
\* The process after the modules are loaded with such a key.
Running == [state |-> "running", jwtSecret |-> GeneratedSecret]

Req == 1..MaxReq

Idle == [kind |-> "idle", pc |-> "idle"]
NoResponse == [kind |-> "none"]

Init ==
  /\ users = {}
  /\ passkey_credentials = {}
  /\ recovery_codes = {}
  /\ invitation_tokens = {}
  /\ setup_tokens = {}
  /\ books = {}
  /\ nextBook = 1
  /\ server = Running
  /\ challenges = [k \in {} |-> 0]
  /\ nextChallenge = 1
  /\ issued = {}
  /\ now = 0
  /\ ticks = 0
  /\ req = [r \in Req |-> Idle]
  /\ response = NoResponse

\* const jwtSecret = process.env.JWT_SECRET; if (!jwtSecret) throw ...: the
\* modules of routes/auth.ts and middleware/auth.ts are loaded; an undefined
\* or empty value stops the process.
Starting == [state |-> "starting", jwtSecret |-> UndefinedSecret]
LoadModules(secret) ==
  /\ server.state = "starting"
  /\ server' = IF ~secret.defined \/ secret.length = 0
               THEN [state |-> "exited", jwtSecret |-> secret]
               ELSE [state |-> "running", jwtSecret |-> secret]
  /\ response' = NoResponse
  /\ UNCHANGED <<db, books, nextBook, challenges, nextChallenge, issued, now, ticks, req>>

\* ------------------------------------------------------- request plumbing
\* req[r] is a request being handled: its inputs, the handler's locals and the
\* statement it waits for.  response is what the last step sent back, if it
\* sent anything: the request with its status and body.
Free(r) == req[r] = Idle
At(r, kind, pc) == req[r].kind = kind /\ req[r].pc = pc

\* The handler goes on as `record`; pc = "done" means it has answered.
Enter(r, record) ==
  IF record.pc = "done"
  THEN req' = [req EXCEPT ![r] = Idle] /\ response' = record
  ELSE req' = [req EXCEPT ![r] = record] /\ response' = NoResponse

\* res.status(status).json({ error }) / res.json(...): the handler is over.
Respond(r, status, error) ==
  Enter(r, [req[r] EXCEPT !.pc = "done", !.status = status, !.error = error])

Goto(r, pc) == Enter(r, [req[r] EXCEPT !.pc = pc])

\* ---------------------------------------------------------- challenge map
Has(key) == key \in DOMAIN challenges
MapSet(key, value) ==
  [k \in (DOMAIN challenges) \cup {key} |-> IF k = key THEN value ELSE challenges[k]]
\* challenges.clear() in place of challenges.delete(key)
MapClear(key) == [k \in {} |-> 0]
MapDelete(key) == [k \in (DOMAIN challenges) \ {key} |-> challenges[k]]

Colon == <<"lit", 1>>
AddPrefix == <<"lit", 2>>
SetupPrefix == <<"lit", 3>>
\* `${username}:${invitationToken}` or username
RegisterChallengeKey(username, invitationToken) ==
  IF invitationToken # EmptyStr THEN username \o <<Colon>> \o invitationToken ELSE username
\* `add-${userId}`
AddChallengeKey(userId) == <<AddPrefix>> \o userId
\* `setup-${token}`
SetupChallengeKey(token) == <<SetupPrefix>> \o token

\* ------------------------------------------------------------------- JWT
\* jwt.sign({ userId, username }, jwtSecret, { expiresIn: '30d' })
JwtSign(userId, username) == [userId |-> userId, username |-> username, exp |-> now + SessionTTL]
\* jwt.verify accepting a token in the second of its exp as well.
JwtVerifyInclusive(token) == token \in issued /\ now <= token.exp
\* jwt.verify: only tokens signed with jwtSecret verify, and only before exp.
JwtVerify(token) == token \in issued /\ now < token.exp
NoJwt == [userId |-> EmptyStr, username |-> EmptyStr, exp |-> 0]
\* req.headers.authorization, split at the blanks: its first part, the number
\* of parts and the token in the second part; scheme "" is a missing header.
AuthHeaders ==
  {[scheme |-> "Bearer", parts |-> 2, token |-> t] : t \in issued} \cup
  {[scheme |-> "", parts |-> 0, token |-> NoJwt]}
\* A token whose payload was changed after signing.
ForgedToken(token) == [token EXCEPT !.exp = 0 - 1]
\* Headers of another form, or with a token jwtSecret did not sign: 'Basic
\* <token>', 'bearer <token>', 'Bearer', 'Bearer <token> <token>', and
\* 'Bearer <forged>'.
MalformedAuthHeaders ==
  {[scheme |-> "Bearer", parts |-> 1, token |-> NoJwt]} \cup
  UNION {{[scheme |-> "Basic", parts |-> 2, token |-> t],
          [scheme |-> "bearer", parts |-> 2, token |-> t],
          [scheme |-> "Bearer", parts |-> 3, token |-> t],
          [scheme |-> "Bearer", parts |-> 2, token |-> ForgedToken(t)]} : t \in issued}
\* authenticate without the expiry test of jwt.verify.
authenticateIgnoringExpiry(authHeader) ==
  /\ authHeader.scheme = "Bearer"
  /\ authHeader.parts = 2
  /\ authHeader.token \in issued
\* middleware/auth.ts authenticate: does the request reach its handler, and
\* the 401 body when it does not.
authenticate(authHeader) ==
  /\ authHeader.scheme = "Bearer"
  /\ authHeader.parts = 2
  /\ JwtVerify(authHeader.token)
authenticateError(authHeader) ==
  IF authHeader.scheme = "" THEN "No authorization header"
  ELSE IF authHeader.parts # 2 \/ authHeader.scheme # "Bearer"
  THEN "Invalid authorization format. Expected \"Bearer <token>\""
  ELSE "Invalid or expired token"

\* --------------------------------------------------- WebAuthn ceremonies
\* What a client submits to a verify endpoint: the challenge its authenticator
\* signed (0: none the server ever issued), the credential id and the
\* signature counter.
NewCredentials(ids) ==
  [challenge : 0..(nextChallenge - 1), id : ids, counter : {0}]
Assertions(ids) ==
  [challenge : 0..(nextChallenge - 1), id : ids, counter : 0..MaxCounter]

\* The same from an authenticator that counts its signatures.
CountingAssertions(ids) ==
  [challenge : 1..(nextChallenge - 1), id : ids, counter : 1..MaxSignCount]

\* @simplewebauthn/server verifyRegistrationResponse: accepts only a response
\* made for expectedChallenge; a rejected one is reported either as
\* verified = false or by throwing.
verifyRegistrationResponse(clientResponse, expectedChallenge) ==
  IF clientResponse.challenge = expectedChallenge
  THEN {"verified"} ELSE {"unverified", "throws"}

\* @simplewebauthn/server verifyAuthenticationResponse: as above, and the
\* response counter must exceed the stored one unless both are zero.
verifyAuthenticationResponse(clientResponse, expectedChallenge, counter) ==
  IF /\ clientResponse.challenge = expectedChallenge
     /\ ~((clientResponse.counter > 0 \/ counter > 0) /\ clientResponse.counter <= counter)
  THEN {"verified"} ELSE {"unverified", "throws"}

\* validateInvitationToken without its `if (tokenData.used)` branch.
validateInvitationTokenIgnoringUsed(token) ==
  LET rows == {t \in invitation_tokens : t.token = token} IN
  IF rows = {}
  THEN [valid |-> FALSE, id |-> EmptyStr, error |-> "Invalid invitation token"]
  ELSE LET tokenData == CHOOSE t \in rows : TRUE IN
       IF tokenData.expires_at < now
       THEN [valid |-> FALSE, id |-> EmptyStr, error |-> "This invitation has expired"]
       ELSE [valid |-> TRUE, id |-> tokenData.id, error |-> ""]

\* ----------------------------------------------------- invitation tokens
\* validateInvitationToken
validateInvitationToken(token) ==
  LET rows == {t \in invitation_tokens : t.token = token} IN
  IF rows = {}
  THEN [valid |-> FALSE, id |-> EmptyStr, error |-> "Invalid invitation token"]
  ELSE LET tokenData == CHOOSE t \in rows : TRUE IN
       IF tokenData.used
       THEN [valid |-> FALSE, id |-> EmptyStr, error |-> "This invitation has already been used"]
       ELSE IF tokenData.expires_at < now
       THEN [valid |-> FALSE, id |-> EmptyStr, error |-> "This invitation has expired"]
       ELSE [valid |-> TRUE, id |-> tokenData.id, error |-> ""]

\* ------------------------------------------------- POST /register/options
\* Lines 61-81: input check, SELECT COUNT(*) FROM users and, when there are
\* users, validateInvitationToken.
RegisterOptions(r, username, invitationToken) ==
  /\ Free(r)
  /\ LET start == [kind |-> "register/options", pc |-> "checkUsername", status |-> 0,
                   error |-> "", username |-> username, invitationToken |-> invitationToken]
         userCount == Cardinality(users)
         validation == validateInvitationToken(invitationToken)
     IN Enter(r,
          IF username = EmptyStr
          THEN [start EXCEPT !.pc = "done", !.status = 400, !.error = "Username is required"]
          ELSE IF userCount > 0 /\ invitationToken = EmptyStr
          THEN [start EXCEPT !.pc = "done", !.status = 403,
                             !.error = "Registration requires an invitation"]
          ELSE IF userCount > 0 /\ ~validation.valid
          THEN [start EXCEPT !.pc = "done", !.status = 403, !.error = validation.error]
          ELSE start)
  /\ UNCHANGED <<db, challenges, nextChallenge, issued, now, ticks, books, nextBook, server>>

\* Lines 83-106: SELECT id FROM users WHERE username = $1, then the options
\* are generated.
RegisterOptionsCheckUsername(r) ==
  /\ At(r, "register/options", "checkUsername")
  /\ IF \E u \in users : u.username = req[r].username
     THEN Respond(r, 400, "Username already exists")
     ELSE Goto(r, "store")
  /\ UNCHANGED <<db, challenges, nextChallenge, issued, now, ticks, books, nextBook, server>>

\* Lines 108-112: challenges.set(challengeKey, options.challenge); res.json(options)
RegisterOptionsStore(r) ==
  /\ At(r, "register/options", "store")
  /\ nextChallenge <= MaxChallenges
  /\ challenges' = MapSet(RegisterChallengeKey(req[r].username, req[r].invitationToken),
                          nextChallenge)
  /\ nextChallenge' = nextChallenge + 1
  /\ Respond(r, 200, "")
  /\ UNCHANGED <<db, issued, now, ticks, books, nextBook, server>>

\* -------------------------------------------------- POST /register/verify
NullTime == 0 - 1
\* bcrypt.hash(code, 10) and bcrypt.compare(input, hash)
bcryptHash(code) == <<"bcrypt", code>>
bcryptCompare(input, hash) == hash = bcryptHash(input)
\* The i-th code generated for a user: four groups of two random bytes in
\* upper-case hex, joined by '-'.  Distinct draws give distinct codes.
RecoveryCodeText(username, i) == [owner |-> username, n |-> i, form |-> "upper"]

\* The first statements of register/verify without the `if (!invitationToken)`
\* branch of lines 140-142.
RegisterVerifyWithoutInvitationTest(r, username, credential, invitationToken) ==
  /\ Free(r)
  /\ LET isFirstUser == Cardinality(users) = 0
         validation == validateInvitationToken(invitationToken)
         start == [kind |-> "register/verify", pc |-> "getChallenge", status |-> 0,
                   error |-> "", username |-> username, invitationToken |-> invitationToken,
                   credential |-> credential, isFirstUser |-> isFirstUser,
                   invitationId |-> IF isFirstUser THEN EmptyStr ELSE validation.id,
                   began |-> NullTime, token |-> NoJwt]
     IN Enter(r,
          IF username = EmptyStr
          THEN [start EXCEPT !.pc = "done", !.status = 400,
                             !.error = "Username and credential are required"]
          ELSE IF ~isFirstUser /\ ~validation.valid
          THEN [start EXCEPT !.pc = "done", !.status = 403, !.error = validation.error]
          ELSE start)
  /\ UNCHANGED <<db, challenges, nextChallenge, issued, now, ticks, books, nextBook, server>>

\* The first statements of register/verify without lines 132-149: the
\* invitation is looked up for its id but what register/options checked is
\* not checked again.
RegisterVerifyWithoutRevalidation(r, username, credential, invitationToken) ==
  /\ Free(r)
  /\ LET isFirstUser == Cardinality(users) = 0
         validation == validateInvitationToken(invitationToken)
         start == [kind |-> "register/verify", pc |-> "getChallenge", status |-> 0,
                   error |-> "", username |-> username, invitationToken |-> invitationToken,
                   credential |-> credential, isFirstUser |-> isFirstUser,
                   invitationId |-> IF isFirstUser THEN EmptyStr ELSE validation.id,
                   began |-> NullTime, token |-> NoJwt]
     IN Enter(r,
          IF username = EmptyStr
          THEN [start EXCEPT !.pc = "done", !.status = 400,
                             !.error = "Username and credential are required"]
          ELSE start)
  /\ UNCHANGED <<db, challenges, nextChallenge, issued, now, ticks, books, nextBook, server>>

\* Lines 122-149: input check, SELECT COUNT(*) FROM users and, unless this is
\* the first user, validateInvitationToken.
RegisterVerify(r, username, credential, invitationToken) ==
  /\ Free(r)
  /\ LET isFirstUser == Cardinality(users) = 0
         validation == validateInvitationToken(invitationToken)
         start == [kind |-> "register/verify", pc |-> "getChallenge", status |-> 0,
                   error |-> "", username |-> username, invitationToken |-> invitationToken,
                   credential |-> credential, isFirstUser |-> isFirstUser,
                   invitationId |-> IF isFirstUser THEN EmptyStr ELSE validation.id,
                   began |-> NullTime, token |-> NoJwt]
     IN Enter(r,
          IF username = EmptyStr
          THEN [start EXCEPT !.pc = "done", !.status = 400,
                             !.error = "Username and credential are required"]
          ELSE IF ~isFirstUser /\ invitationToken = EmptyStr
          THEN [start EXCEPT !.pc = "done", !.status = 403,
                             !.error = "Registration requires an invitation"]
          ELSE IF ~isFirstUser /\ ~validation.valid
          THEN [start EXCEPT !.pc = "done", !.status = 403, !.error = validation.error]
          ELSE start)
  /\ UNCHANGED <<db, challenges, nextChallenge, issued, now, ticks, books, nextBook, server>>

\* Lines 151-182: challenges.get(challengeKey), verifyRegistrationResponse,
\* getClient, BEGIN.
RegisterVerifyGetChallenge(r) ==
  /\ At(r, "register/verify", "getChallenge")
  /\ LET challengeKey == RegisterChallengeKey(req[r].username, req[r].invitationToken) IN
       IF ~Has(challengeKey) THEN Respond(r, 400, "No registration in progress")
       ELSE \E outcome \in verifyRegistrationResponse(req[r].credential, challenges[challengeKey]) :
              CASE outcome = "verified" ->
                     Enter(r, [req[r] EXCEPT !.pc = "commit", !.began = now])
                [] outcome = "unverified" -> Respond(r, 400, "Verification failed")
                [] outcome = "throws" -> Respond(r, 500, "Failed to verify registration")
  /\ UNCHANGED <<db, challenges, nextChallenge, issued, now, ticks, books, nextBook, server>>

\* INSERT INTO users with is_initial_user left at its default FALSE.
NewUserNeverInitial(username, isFirstUser, invitationId) ==
  [id |-> UserId(username), username |-> username,
   is_initial_user |-> FALSE, invitation |-> invitationId]

\* The rows the transaction of register/verify writes.  `invitation` is no
\* column: it keeps the invitationId of the transaction that made the row.
NewUser(username, isFirstUser, invitationId) ==
  [id |-> UserId(username), username |-> username,
   is_initial_user |-> isFirstUser, invitation |-> invitationId]
NewPasskey(user_id, credential) ==
  [id |-> PasskeyId(credential.id), user_id |-> user_id,
   credential_id |-> credential.id, counter |-> credential.counter]
NewRecoveryCodes(username) ==
  {[id |-> <<username, i>>, user_id |-> UserId(username),
    code |-> bcryptHash(RecoveryCodeText(username, i)),
    used |-> FALSE, used_at |-> NullTime] : i \in 1..NumRecoveryCodes}
\* UPDATE invitation_tokens SET used = TRUE, used_at = NOW(), used_by = $1 WHERE id = $2
MarkInvitationUsed(id, user_id, at) ==
  {IF t.id = id THEN [t EXCEPT !.used = TRUE, !.used_at = at, !.used_by = user_id] ELSE t :
     t \in invitation_tokens}

\* users.username and passkey_credentials.credential_id are UNIQUE.
UsernameTaken(username) == \E u \in users : u.username = username
CredentialIdTaken(credentialID) == \E c \in passkey_credentials : c.credential_id = credentialID

\* catch (error) { await client.query('ROLLBACK'); throw error; } and the
\* outer catch: nothing the transaction wrote is kept.
Rollback(r) ==
  /\ Respond(r, 500, "Failed to verify registration")
  /\ UNCHANGED <<db, challenges, nextChallenge, issued, now, ticks, books, nextBook, server>>

\* Lines 182-234: BEGIN, INSERT INTO users, INSERT INTO passkey_credentials,
\* UPDATE invitation_tokens, ten times bcrypt.hash and INSERT INTO
\* recovery_codes, COMMIT; a statement that violates a unique index throws.
TxCommit(r) ==
  /\ At(r, "register/verify", "commit")
  /\ IF UsernameTaken(req[r].username) \/ CredentialIdTaken(req[r].credential.id)
     THEN Rollback(r)
     ELSE /\ users' = users \cup
               {NewUser(req[r].username, req[r].isFirstUser, req[r].invitationId)}
          /\ passkey_credentials' =
               passkey_credentials \cup {NewPasskey(UserId(req[r].username), req[r].credential)}
          /\ invitation_tokens' =
               IF req[r].invitationId # EmptyStr
               THEN MarkInvitationUsed(req[r].invitationId, UserId(req[r].username),
                                       req[r].began)
               ELSE invitation_tokens
          /\ recovery_codes' = recovery_codes \cup NewRecoveryCodes(req[r].username)
          /\ Goto(r, "respond")
          /\ UNCHANGED <<setup_tokens, challenges, nextChallenge, issued, now, ticks, books, nextBook, server>>

\* A statement of the transaction fails (storage error): lines 229-231.
TxFails(r) ==
  /\ At(r, "register/verify", "commit")
  /\ Rollback(r)

\* Lines 236-254: challenges.delete(challengeKey), jwt.sign, res.json
RegisterVerifyRespond(r) ==
  /\ At(r, "register/verify", "respond")
  /\ challenges' = MapDelete(RegisterChallengeKey(req[r].username, req[r].invitationToken))
  /\ LET token == JwtSign(UserId(req[r].username), req[r].username) IN
       /\ issued' = issued \cup {token}
       /\ Enter(r, [req[r] EXCEPT !.pc = "done", !.status = 200, !.token = token])
  /\ UNCHANGED <<db, nextChallenge, now, ticks, books, nextBook, server>>

\* ----------------------------------------------- POST /invitation/generate
\* Lines 833-854, behind authenticate: one INSERT INTO invitation_tokens.
InvitationGenerate(r, authHeader) ==
  /\ Free(r)
  /\ LET start == [kind |-> "invitation/generate", pc |-> "done", status |-> 0, error |-> "",
                   user |-> authHeader.token, invitationToken |-> EmptyStr]
         n == Cardinality(invitation_tokens) + 1
     IN IF ~authenticate(authHeader)
        THEN /\ Enter(r, [start EXCEPT !.status = 401, !.error = authenticateError(authHeader)])
             /\ UNCHANGED invitation_tokens
        ELSE /\ n <= MaxInvitations
             /\ invitation_tokens' = invitation_tokens \cup
                  {[id |-> InvitationId(n), created_by |-> authHeader.token.userId,
                    token |-> Str("invite", n), expires_at |-> now + InvitationTTL,
                    used |-> FALSE, used_at |-> NullTime, used_by |-> EmptyStr]}
             /\ Enter(r, [start EXCEPT !.status = 200, !.invitationToken = Str("invite", n)])
  /\ UNCHANGED <<users, passkey_credentials, recovery_codes, setup_tokens,
                 challenges, nextChallenge, issued, now, ticks, books, nextBook, server>>

\* --------------------------------------- GET /invitation/validate/:token
\* Lines 864-888: the SELECT and the three tests of validateInvitationToken,
\* written out in the handler; every rejection is res.json({ valid: false }).
InvitationValidate(r, token) ==
  /\ Free(r)
  /\ Enter(r, [kind |-> "invitation/validate", pc |-> "done", status |-> 200, error |-> "",
               invitationToken |-> token, valid |-> validateInvitationToken(token).valid])
  /\ UNCHANGED <<db, challenges, nextChallenge, issued, now, ticks, books, nextBook, server>>

\* ---------------------------------------------------- POST /login/options
\* Lines 264-297: input check, SELECT id, username FROM users WHERE
\* username = $1 and, for a user, SELECT credential_id FROM
\* passkey_credentials WHERE user_id = $1.
\* login/options answering 404 'User not found' for a username without a
\* user row, in place of the options with an empty allow-list.
LoginOptionsKnownUsersOnly(r, username) ==
  /\ Free(r)
  /\ LET start == [kind |-> "login/options", pc |-> "store", status |-> 0, error |-> "",
                   username |-> username,
                   allowCredentials |->
                     {c.credential_id : c \in {d \in passkey_credentials :
                                                 d.user_id = UserId(username)}}]
     IN Enter(r,
          IF username = EmptyStr
          THEN [start EXCEPT !.pc = "done", !.status = 400, !.error = "Username is required"]
          ELSE IF ~UsernameTaken(username)
          THEN [start EXCEPT !.pc = "done", !.status = 404, !.error = "User not found",
                             !.allowCredentials = {}]
          ELSE start)
  /\ UNCHANGED <<db, challenges, nextChallenge, issued, now, ticks, books, nextBook, server>>

\* Lines 262-298: input check, SELECT id, username FROM users WHERE username
\* = $1, SELECT credential_id ... WHERE user_id = $1 for a user that exists,
\* generateAuthenticationOptions.
LoginOptions(r, username) ==
  /\ Free(r)
  /\ LET start == [kind |-> "login/options", pc |-> "store", status |-> 0, error |-> "",
                   username |-> username,
                   allowCredentials |->
                     IF UsernameTaken(username)
                     THEN {c.credential_id : c \in {d \in passkey_credentials :
                                                      d.user_id = UserId(username)}}
                     ELSE {}]
     IN Enter(r,
          IF username = EmptyStr
          THEN [start EXCEPT !.pc = "done", !.status = 400, !.error = "Username is required"]
          ELSE start)
  /\ UNCHANGED <<db, challenges, nextChallenge, issued, now, ticks, books, nextBook, server>>

\* Lines 299-302: challenges.set(username, options.challenge); res.json(options)
LoginOptionsStore(r) ==
  /\ At(r, "login/options", "store")
  /\ nextChallenge <= MaxChallenges
  /\ challenges' = MapSet(req[r].username, nextChallenge)
  /\ nextChallenge' = nextChallenge + 1
  /\ Respond(r, 200, "")
  /\ UNCHANGED <<db, issued, now, ticks, books, nextBook, server>>

\* ----------------------------------------------------- POST /login/verify
\* Lines 312-325: input check, challenges.get(username)
LoginVerify(r, username, credential) ==
  /\ Free(r)
  /\ LET start == [kind |-> "login/verify", pc |-> "find", status |-> 0, error |-> "",
                   username |-> username, credential |-> credential,
                   expectedChallenge |-> 0, token |-> NoJwt]
     IN Enter(r,
          IF username = EmptyStr
          THEN [start EXCEPT !.pc = "done", !.status = 400,
                             !.error = "Username and credential are required"]
          ELSE IF ~Has(username)
          THEN [start EXCEPT !.pc = "done", !.status = 400, !.error = "No login in progress"]
          ELSE [start EXCEPT !.expectedChallenge = challenges[username]])
  /\ UNCHANGED <<db, challenges, nextChallenge, issued, now, ticks, books, nextBook, server>>

\* The lookups of login/verify with a 404 'User not found' for an unknown
\* username in place of the generic error of line 334.
LoginVerifyFindNamingUser(r) ==
  /\ At(r, "login/verify", "find")
  /\ LET rows == {c \in passkey_credentials :
                    /\ c.user_id = UserId(req[r].username)
                    /\ c.credential_id = req[r].credential.id}
     IN IF ~UsernameTaken(req[r].username) THEN Respond(r, 404, "User not found")
        ELSE IF rows = {} THEN Respond(r, 400, "Authentication failed")
        ELSE LET dbCredential == CHOOSE c \in rows : TRUE IN
             \E outcome \in verifyAuthenticationResponse(
                               req[r].credential, req[r].expectedChallenge, dbCredential.counter) :
               CASE outcome = "verified" -> Goto(r, "updateCounter")
                 [] outcome = "unverified" -> Respond(r, 400, "Verification failed")
                 [] outcome = "throws" -> Respond(r, 500, "Failed to verify login")
  /\ UNCHANGED <<db, challenges, nextChallenge, issued, now, ticks, books, nextBook, server>>

\* The lookups of login/verify with the counter UPDATE of lines 370-373 moved
\* ahead of the `if (!verification.verified)` test.
LoginVerifyFindUpdatingFirst(r) ==
  /\ At(r, "login/verify", "find")
  /\ LET rows == {c \in passkey_credentials :
                    /\ c.user_id = UserId(req[r].username)
                    /\ c.credential_id = req[r].credential.id}
     IN IF ~UsernameTaken(req[r].username)
        THEN Respond(r, 400, "Authentication failed") /\ UNCHANGED passkey_credentials
        ELSE IF rows = {}
        THEN Respond(r, 400, "Authentication failed") /\ UNCHANGED passkey_credentials
        ELSE LET dbCredential == CHOOSE c \in rows : TRUE IN
             /\ passkey_credentials' =
                  (passkey_credentials \ {dbCredential}) \cup
                    {[dbCredential EXCEPT !.counter = req[r].credential.counter + 1]}
             /\ \E outcome \in verifyAuthenticationResponse(
                               req[r].credential, req[r].expectedChallenge, dbCredential.counter) :
                  CASE outcome = "verified" -> Goto(r, "updateCounter")
                    [] outcome = "unverified" -> Respond(r, 400, "Verification failed")
                    [] outcome = "throws" -> Respond(r, 500, "Failed to verify login")
  /\ UNCHANGED <<users, recovery_codes, invitation_tokens, setup_tokens,
                 challenges, nextChallenge, issued, now, ticks, books, nextBook, server>>

\* Lines 328-367: SELECT id, username FROM users WHERE username = $1, SELECT
\* ... FROM passkey_credentials WHERE user_id = $1 AND credential_id = $2,
\* then verifyAuthenticationResponse.
LoginVerifyFind(r) ==
  /\ At(r, "login/verify", "find")
  /\ LET rows == {c \in passkey_credentials :
                    /\ c.user_id = UserId(req[r].username)
                    /\ c.credential_id = req[r].credential.id}
     IN IF ~UsernameTaken(req[r].username) THEN Respond(r, 400, "Authentication failed")
        ELSE IF rows = {} THEN Respond(r, 400, "Authentication failed")
        ELSE LET dbCredential == CHOOSE c \in rows : TRUE IN
             \E outcome \in verifyAuthenticationResponse(
                               req[r].credential, req[r].expectedChallenge, dbCredential.counter) :
               CASE outcome = "verified" -> Goto(r, "updateCounter")
                 [] outcome = "unverified" -> Respond(r, 400, "Verification failed")
                 [] outcome = "throws" -> Respond(r, 500, "Failed to verify login")
  /\ UNCHANGED <<db, challenges, nextChallenge, issued, now, ticks, books, nextBook, server>>

\* Lines 369-373: UPDATE passkey_credentials SET counter = $1 WHERE id = $2
LoginVerifyUpdateCounter(r) ==
  /\ At(r, "login/verify", "updateCounter")
  /\ passkey_credentials' =
       {IF c.id = PasskeyId(req[r].credential.id)
        THEN [c EXCEPT !.counter = req[r].credential.counter] ELSE c : c \in passkey_credentials}
  /\ Goto(r, "respond")
  /\ UNCHANGED <<users, recovery_codes, invitation_tokens, setup_tokens,
                 challenges, nextChallenge, issued, now, ticks, books, nextBook, server>>

\* Lines 375-392: challenges.delete(username), jwt.sign, res.json
LoginVerifyRespond(r) ==
  /\ At(r, "login/verify", "respond")
  /\ challenges' = MapDelete(req[r].username)
  /\ LET token == JwtSign(UserId(req[r].username), req[r].username) IN
       /\ issued' = issued \cup {token}
       /\ Enter(r, [req[r] EXCEPT !.pc = "done", !.status = 200, !.token = token])
  /\ UNCHANGED <<db, nextChallenge, now, ticks, books, nextBook, server>>

\* --------------------------------------------------- POST /login/recovery
\* What a client may type: a code as issued, or in lower case with blanks
\* around it; n = 0 is a code that was never issued.
PresentedCodes(owners) ==
  [owner : owners, n : 0..MaxPresentedCode, form : {"upper", "lower padded"}]
\* recoveryCode.trim().toUpperCase()
Normalize(recoveryCode) == [recoveryCode EXCEPT !.form = "upper"]

\* Lines 421-433: the unused rows of the user that bcrypt.compare matches.
MatchingCodes(user_id, recoveryCode) ==
  {row \in recovery_codes :
     /\ row.user_id = user_id
     /\ row.used = FALSE
     /\ bcryptCompare(Normalize(recoveryCode), row.code)}

\* login/recovery with a 404 'User not found' for an unknown username in
\* place of the generic error of line 415.
LoginRecoveryNamingUser(r, username, recoveryCode) ==
  /\ Free(r)
  /\ LET start == [kind |-> "login/recovery", pc |-> "markUsed", status |-> 0, error |-> "",
                   username |-> username, recoveryCode |-> recoveryCode,
                   matchedCodeId |-> <<>>, token |-> NoJwt]
         matched == MatchingCodes(UserId(username), recoveryCode)
     IN IF username = EmptyStr
        THEN Enter(r, [start EXCEPT !.pc = "done", !.status = 400,
                                    !.error = "Username and recovery code are required"])
        ELSE IF ~UsernameTaken(username)
        THEN Enter(r, [start EXCEPT !.pc = "done", !.status = 404, !.error = "User not found"])
        ELSE IF matched = {}
        THEN Enter(r, [start EXCEPT !.pc = "done", !.status = 400,
                                    !.error = "Invalid username or recovery code"])
        ELSE \E row \in matched : Enter(r, [start EXCEPT !.matchedCodeId = row.id])
  /\ UNCHANGED <<db, challenges, nextChallenge, issued, now, ticks, books, nextBook, server>>

\* Lines 402-437: input check, SELECT id, username FROM users WHERE
\* username = $1, SELECT id, code, used FROM recovery_codes WHERE user_id = $1
\* AND used = FALSE, bcrypt.compare against each row until one matches.
LoginRecovery(r, username, recoveryCode) ==
  /\ Free(r)
  /\ LET start == [kind |-> "login/recovery", pc |-> "markUsed", status |-> 0, error |-> "",
                   username |-> username, recoveryCode |-> recoveryCode,
                   matchedCodeId |-> <<>>, token |-> NoJwt]
         matched == MatchingCodes(UserId(username), recoveryCode)
     IN IF username = EmptyStr
        THEN Enter(r, [start EXCEPT !.pc = "done", !.status = 400,
                                    !.error = "Username and recovery code are required"])
        ELSE IF ~UsernameTaken(username) \/ matched = {}
        THEN Enter(r, [start EXCEPT !.pc = "done", !.status = 400,
                                    !.error = "Invalid username or recovery code"])
        ELSE \E row \in matched : Enter(r, [start EXCEPT !.matchedCodeId = row.id])
  /\ UNCHANGED <<db, challenges, nextChallenge, issued, now, ticks, books, nextBook, server>>

\* The UPDATE with WHERE user_id = ... in place of WHERE id = $1.
MarkCodesOfUserUsed(matchedCodeId) ==
  {IF row.id[1] = matchedCodeId[1] THEN [row EXCEPT !.used = TRUE, !.used_at = now] ELSE row :
     row \in recovery_codes}

\* Lines 439-443: UPDATE recovery_codes SET used = TRUE, used_at = NOW() WHERE id = $1
MarkCodeUsed(matchedCodeId) ==
  {IF row.id = matchedCodeId THEN [row EXCEPT !.used = TRUE, !.used_at = now] ELSE row :
     row \in recovery_codes}

\* Lines 439-459: the UPDATE, jwt.sign, res.json
LoginRecoveryMarkUsed(r) ==
  /\ At(r, "login/recovery", "markUsed")
  /\ recovery_codes' = MarkCodeUsed(req[r].matchedCodeId)
  /\ LET token == JwtSign(UserId(req[r].username), req[r].username) IN
       /\ issued' = issued \cup {token}
       /\ Enter(r, [req[r] EXCEPT !.pc = "done", !.status = 200, !.token = token])
  /\ UNCHANGED <<users, passkey_credentials, invitation_tokens, setup_tokens,
                 challenges, nextChallenge, now, ticks, books, nextBook, server>>

\* ------------------------------------------------------ POST /verify-token
\* Lines 483-514: jwt.verify, then SELECT id, username FROM users WHERE
\* id = $1; every exception is answered 401.
VerifyToken(r, token) ==
  /\ Free(r)
  /\ LET start == [kind |-> "verify-token", pc |-> "done", status |-> 200, error |-> "",
                   token |-> token, valid |-> FALSE,
                   user |-> [id |-> EmptyStr, username |-> EmptyStr]]
         rows == {u \in users : u.id = token.userId}
     IN Enter(r,
          IF token = NoJwt
          THEN [start EXCEPT !.status = 400, !.error = "Token is required"]
          ELSE IF ~JwtVerify(token)
          THEN [start EXCEPT !.status = 401, !.error = "Invalid or expired token"]
          ELSE IF rows = {}
          THEN [start EXCEPT !.status = 404, !.error = "User not found"]
          ELSE LET user == CHOOSE u \in rows : TRUE IN
               [start EXCEPT !.valid = TRUE,
                             !.user = [id |-> user.id, username |-> user.username]])
  /\ UNCHANGED <<db, challenges, nextChallenge, issued, now, ticks, books, nextBook, server>>

\* ---------------------------------------------------------- GET /passkeys
\* Lines 520-540, behind authenticate: SELECT id, created_at, device_name FROM
\* passkey_credentials WHERE user_id = $1
PasskeysList(r, authHeader) ==
  /\ Free(r)
  /\ LET start == [kind |-> "passkeys/list", pc |-> "done", status |-> 200, error |-> "",
                   user |-> authHeader.token, passkeys |-> {}]
         rows == {c \in passkey_credentials : c.user_id = authHeader.token.userId}
     IN Enter(r,
          IF ~authenticate(authHeader)
          THEN [start EXCEPT !.status = 401, !.error = authenticateError(authHeader)]
          ELSE IF authHeader.token.userId = EmptyStr
          THEN [start EXCEPT !.status = 401, !.error = "Not authenticated"]
          ELSE [start EXCEPT !.passkeys = {row.id : row \in rows}])
  /\ UNCHANGED <<db, challenges, nextChallenge, issued, now, ticks, books, nextBook, server>>

\* ------------------------------------------------ POST /passkeys/add-options
\* Lines 549-581, behind authenticate: SELECT credential_id FROM
\* passkey_credentials WHERE user_id = $1 (the rows only fill
\* excludeCredentials of the response), then generateRegistrationOptions.
PasskeysAddOptions(r, authHeader) ==
  /\ Free(r)
  /\ LET start == [kind |-> "passkeys/add-options", pc |-> "store", status |-> 0,
                   error |-> "", user |-> authHeader.token]
     IN Enter(r,
          IF ~authenticate(authHeader)
          THEN [start EXCEPT !.pc = "done", !.status = 401,
                             !.error = authenticateError(authHeader)]
          ELSE start)
  /\ UNCHANGED <<db, challenges, nextChallenge, issued, now, ticks, books, nextBook, server>>

\* Lines 578-581: challenges.set(`add-${userId}`, options.challenge)
PasskeysAddOptionsStore(r) ==
  /\ At(r, "passkeys/add-options", "store")
  /\ nextChallenge <= MaxChallenges
  /\ challenges' = MapSet(AddChallengeKey(req[r].user.userId), nextChallenge)
  /\ nextChallenge' = nextChallenge + 1
  /\ Respond(r, 200, "")
  /\ UNCHANGED <<db, issued, now, ticks, books, nextBook, server>>

\* ------------------------------------------------- POST /passkeys/add-verify
\* Lines 591-621, behind authenticate: challenges.get(`add-${userId}`) and
\* verifyRegistrationResponse.
PasskeysAddVerify(r, authHeader, credential) ==
  /\ Free(r)
  /\ LET start == [kind |-> "passkeys/add-verify", pc |-> "done", status |-> 0,
                   error |-> "", user |-> authHeader.token, credential |-> credential]
         key == AddChallengeKey(authHeader.token.userId)
     IN IF ~authenticate(authHeader)
        THEN Enter(r, [start EXCEPT !.status = 401,
                                                     !.error = authenticateError(authHeader)])
        ELSE IF ~Has(key)
        THEN Enter(r,
               [start EXCEPT !.status = 400, !.error = "No add passkey operation in progress"])
        ELSE \E outcome \in verifyRegistrationResponse(credential, challenges[key]) :
               Enter(r,
                 CASE outcome = "verified" -> [start EXCEPT !.pc = "insert"]
                   [] outcome = "unverified" ->
                        [start EXCEPT !.status = 400, !.error = "Verification failed"]
                   [] outcome = "throws" ->
                        [start EXCEPT !.status = 500, !.error = "Failed to add passkey"])
  /\ UNCHANGED <<db, challenges, nextChallenge, issued, now, ticks, books, nextBook, server>>

\* Lines 631-641: INSERT INTO passkey_credentials; credential_id is UNIQUE.
PasskeysAddVerifyInsert(r) ==
  /\ At(r, "passkeys/add-verify", "insert")
  /\ IF CredentialIdTaken(req[r].credential.id)
     THEN Respond(r, 500, "Failed to add passkey") /\ UNCHANGED passkey_credentials
     ELSE /\ passkey_credentials' =
               passkey_credentials \cup {NewPasskey(req[r].user.userId, req[r].credential)}
          /\ Goto(r, "respond")
  /\ UNCHANGED <<users, recovery_codes, invitation_tokens, setup_tokens,
                 challenges, nextChallenge, issued, now, ticks, books, nextBook, server>>

\* Lines 643-646: challenges.delete(`add-${userId}`); res.json
PasskeysAddVerifyRespond(r) ==
  /\ At(r, "passkeys/add-verify", "respond")
  /\ challenges' = MapDelete(AddChallengeKey(req[r].user.userId))
  /\ Respond(r, 200, "")
  /\ UNCHANGED <<db, nextChallenge, issued, now, ticks, books, nextBook, server>>

\* --------------------------------------------------- DELETE /passkeys/:id
PasskeyIds == {PasskeyId(c) : c \in CredentialIds}
\* The guard of line 670 with < in place of <=.
IsNoPasskey(passkeyCount) == passkeyCount < 1
\* Line 670: if (passkeyCount <= 1)
IsOnlyPasskey(passkeyCount) == passkeyCount <= 1

\* Lines 656-672, behind authenticate: SELECT COUNT(*) FROM
\* passkey_credentials WHERE user_id = $1
PasskeysDelete(r, authHeader, passkeyId) ==
  /\ Free(r)
  /\ LET start == [kind |-> "passkeys/delete", pc |-> "delete", status |-> 0, error |-> "",
                   user |-> authHeader.token, passkeyId |-> passkeyId, passkeyCount |-> 0]
         passkeyCount ==
           Cardinality({c \in passkey_credentials : c.user_id = authHeader.token.userId})
     IN Enter(r,
          IF ~authenticate(authHeader)
          THEN [start EXCEPT !.pc = "done", !.status = 401,
                             !.error = authenticateError(authHeader)]
          ELSE IF IsOnlyPasskey(passkeyCount)
          THEN [start EXCEPT !.pc = "done", !.status = 400, !.passkeyCount = passkeyCount,
                             !.error = "Cannot delete your only passkey"]
          ELSE [start EXCEPT !.passkeyCount = passkeyCount])
  /\ UNCHANGED <<db, challenges, nextChallenge, issued, now, ticks, books, nextBook, server>>

\* The DELETE without its `AND user_id = $2`.
DeletedRowsOfAnyUser(passkeyId, userId) ==
  {c \in passkey_credentials : c.id = passkeyId}

\* Lines 674-684: DELETE FROM passkey_credentials WHERE id = $1 AND user_id = $2
DeletedRows(passkeyId, userId) ==
  {c \in passkey_credentials : c.id = passkeyId /\ c.user_id = userId}

PasskeysDeleteRow(r) ==
  /\ At(r, "passkeys/delete", "delete")
  /\ LET rows == DeletedRows(req[r].passkeyId, req[r].user.userId) IN
       /\ passkey_credentials' = passkey_credentials \ rows
       /\ IF rows = {} THEN Respond(r, 404, "Passkey not found") ELSE Respond(r, 200, "")
  /\ UNCHANGED <<users, recovery_codes, invitation_tokens, setup_tokens,
                 challenges, nextChallenge, issued, now, ticks, books, nextBook, server>>

\* ------------------------------------------------------------ setup tokens
\* Lines 696-717, behind authenticate: one INSERT INTO setup_tokens.
SetupTokenGenerate(r, authHeader) ==
  /\ Free(r)
  /\ LET start == [kind |-> "setup-token/generate", pc |-> "done", status |-> 0,
                   error |-> "", user |-> authHeader.token, setupToken |-> EmptyStr]
         n == Cardinality(setup_tokens) + 1
     IN IF ~authenticate(authHeader)
        THEN /\ Enter(r, [start EXCEPT !.status = 401,
                                                        !.error = authenticateError(authHeader)])
             /\ UNCHANGED setup_tokens
        ELSE /\ n <= MaxSetupTokens
             /\ setup_tokens' = setup_tokens \cup
                  {[id |-> SetupTokenId(n), user_id |-> authHeader.token.userId,
                    token |-> Str("setup", n), expires_at |-> now + SetupTokenTTL,
                    used |-> FALSE, used_at |-> NullTime]}
             /\ Enter(r, [start EXCEPT !.status = 200,
                                                        !.setupToken = Str("setup", n)])
  /\ UNCHANGED <<users, passkey_credentials, recovery_codes, invitation_tokens,
                 challenges, nextChallenge, issued, now, ticks, books, nextBook, server>>

\* The token check without its `new Date(tokenData.expires_at) < new Date()`
\* branch.
validateSetupTokenIgnoringExpiry(token) ==
  LET rows == {t \in setup_tokens : t.token = token}
      none == [id |-> EmptyStr, user_id |-> EmptyStr, username |-> EmptyStr]
  IN IF rows = {}
     THEN [status |-> 404, error |-> "Invalid setup token", tokenData |-> none]
     ELSE LET st == CHOOSE t \in rows : TRUE
              owner == CHOOSE u \in users : u.id = st.user_id
          IN IF st.used
             THEN [status |-> 400, error |-> "This setup token has already been used",
                   tokenData |-> none]
             ELSE [status |-> 200, error |-> "",
                   tokenData |-> [id |-> st.id, user_id |-> st.user_id, username |-> owner.username]]

\* The token check shared by lines 772-792 and 909-929: SELECT ... FROM
\* setup_tokens st JOIN users u ON st.user_id = u.id WHERE st.token = $1
validateSetupToken(token) ==
  LET rows == {t \in setup_tokens : t.token = token}
      none == [id |-> EmptyStr, user_id |-> EmptyStr, username |-> EmptyStr]
  IN IF rows = {}
     THEN [status |-> 404, error |-> "Invalid setup token", tokenData |-> none]
     ELSE LET st == CHOOSE t \in rows : TRUE
              owner == CHOOSE u \in users : u.id = st.user_id
          IN IF st.used
             THEN [status |-> 400, error |-> "This setup token has already been used",
                   tokenData |-> none]
             ELSE IF st.expires_at < now
             THEN [status |-> 400, error |-> "This setup token has expired", tokenData |-> none]
             ELSE [status |-> 200, error |-> "",
                   tokenData |-> [id |-> st.id, user_id |-> st.user_id, username |-> owner.username]]

\* GET /setup-token/validate/:token, lines 727-755
SetupTokenValidate(r, token) ==
  /\ Free(r)
  /\ LET v == validateSetupToken(token) IN
       Enter(r, [kind |-> "setup-token/validate", pc |-> "done", status |-> v.status,
                 error |-> v.error, setupToken |-> token, valid |-> v.status = 200,
                 username |-> v.tokenData.username])
  /\ UNCHANGED <<db, challenges, nextChallenge, issued, now, ticks, books, nextBook, server>>

\* POST /setup-token/register-options, lines 765-816: the token check, then
\* SELECT credential_id FROM passkey_credentials (its rows only fill
\* excludeCredentials of the response) and generateRegistrationOptions.
SetupRegisterOptions(r, token) ==
  /\ Free(r)
  /\ LET start == [kind |-> "setup-token/register-options", pc |-> "store", status |-> 0,
                   error |-> "", setupToken |-> token]
         v == validateSetupToken(token)
     IN Enter(r,
          IF token = EmptyStr
          THEN [start EXCEPT !.pc = "done", !.status = 400, !.error = "Token is required"]
          ELSE IF v.status # 200
          THEN [start EXCEPT !.pc = "done", !.status = v.status, !.error = v.error]
          ELSE start)
  /\ UNCHANGED <<db, challenges, nextChallenge, issued, now, ticks, books, nextBook, server>>

\* Lines 818-821: challenges.set(`setup-${token}`, options.challenge)
SetupRegisterOptionsStore(r) ==
  /\ At(r, "setup-token/register-options", "store")
  /\ nextChallenge <= MaxChallenges
  /\ challenges' = MapSet(SetupChallengeKey(req[r].setupToken), nextChallenge)
  /\ nextChallenge' = nextChallenge + 1
  /\ Respond(r, 200, "")
  /\ UNCHANGED <<db, issued, now, ticks, books, nextBook, server>>

\* POST /setup-token/register-verify, lines 898-929: input check and the
\* token check.
SetupRegisterVerify(r, token, credential) ==
  /\ Free(r)
  /\ LET v == validateSetupToken(token)
         start == [kind |-> "setup-token/register-verify", pc |-> "getChallenge",
                   status |-> 0, error |-> "", setupToken |-> token,
                   credential |-> credential, tokenData |-> v.tokenData, token |-> NoJwt]
     IN Enter(r,
          IF token = EmptyStr
          THEN [start EXCEPT !.pc = "done", !.status = 400,
                             !.error = "Token and credential are required"]
          ELSE IF v.status # 200
          THEN [start EXCEPT !.pc = "done", !.status = v.status, !.error = v.error]
          ELSE start)
  /\ UNCHANGED <<db, challenges, nextChallenge, issued, now, ticks, books, nextBook, server>>

\* Lines 931-947: challenges.get(`setup-${token}`), verifyRegistrationResponse
SetupRegisterVerifyGetChallenge(r) ==
  /\ At(r, "setup-token/register-verify", "getChallenge")
  /\ LET key == SetupChallengeKey(req[r].setupToken) IN
       IF ~Has(key) THEN Respond(r, 400, "No registration in progress")
       ELSE \E outcome \in verifyRegistrationResponse(req[r].credential, challenges[key]) :
              CASE outcome = "verified" -> Goto(r, "insert")
                [] outcome = "unverified" -> Respond(r, 400, "Verification failed")
                [] outcome = "throws" -> Respond(r, 500, "Failed to complete setup")
  /\ UNCHANGED <<db, challenges, nextChallenge, issued, now, ticks, books, nextBook, server>>

\* The INSERT of setup register-verify followed by the recovery-code loop of
\* register/verify.
SetupRegisterVerifyInsertWithCodes(r) ==
  /\ At(r, "setup-token/register-verify", "insert")
  /\ passkey_credentials' =
       passkey_credentials \cup {NewPasskey(req[r].tokenData.user_id, req[r].credential)}
  /\ recovery_codes' = recovery_codes \cup NewRecoveryCodes(Str("user", MaxUsers))
  /\ Goto(r, "markUsed")
  /\ UNCHANGED <<users, invitation_tokens, setup_tokens,
                 challenges, nextChallenge, issued, now, ticks, books, nextBook, server>>

\* Lines 954-963: INSERT INTO passkey_credentials; credential_id is UNIQUE.
SetupRegisterVerifyInsert(r) ==
  /\ At(r, "setup-token/register-verify", "insert")
  /\ IF CredentialIdTaken(req[r].credential.id)
     THEN Respond(r, 500, "Failed to complete setup") /\ UNCHANGED passkey_credentials
     ELSE /\ passkey_credentials' =
               passkey_credentials \cup {NewPasskey(req[r].tokenData.user_id, req[r].credential)}
          /\ Goto(r, "markUsed")
  /\ UNCHANGED <<users, recovery_codes, invitation_tokens, setup_tokens,
                 challenges, nextChallenge, issued, now, ticks, books, nextBook, server>>

\* Lines 966-969: UPDATE setup_tokens SET used = TRUE, used_at = NOW() WHERE id = $1
SetupRegisterVerifyMarkUsed(r) ==
  /\ At(r, "setup-token/register-verify", "markUsed")
  /\ setup_tokens' =
       {IF t.id = req[r].tokenData.id THEN [t EXCEPT !.used = TRUE, !.used_at = now] ELSE t :
          t \in setup_tokens}
  /\ Goto(r, "respond")
  /\ UNCHANGED <<users, passkey_credentials, recovery_codes, invitation_tokens,
                 challenges, nextChallenge, issued, now, ticks, books, nextBook, server>>

\* Lines 971-988: challenges.delete(`setup-${token}`), jwt.sign, res.json
SetupRegisterVerifyRespond(r) ==
  /\ At(r, "setup-token/register-verify", "respond")
  /\ challenges' = MapDelete(SetupChallengeKey(req[r].setupToken))
  /\ LET token == JwtSign(req[r].tokenData.user_id, req[r].tokenData.username) IN
       /\ issued' = issued \cup {token}
       /\ Enter(r, [req[r] EXCEPT !.pc = "done", !.status = 200, !.token = token])
  /\ UNCHANGED <<db, nextChallenge, now, ticks, books, nextBook, server>>

\* ------------------------------------------------------------ books.ts
\* router.use(authenticate): every route of the router runs behind the
\* middleware.  A books row is kept as its id, owner, category and
\* next_up_order; Null is SQL NULL and Undefined a field the body leaves out.
Null == 0 - 1
Undefined == 0 - 2
NullCategory == "null"
UndefinedCategory == "undefined"
BookCategories == {"fiction", "nonfiction"}
\* gen_random_uuid() of the n-th row inserted into books
BookId(n) == Str("uuid-book", n)
BookIds == {BookId(n) : n \in 1..MaxBooks}

\* createBookSchema.parse / updateBookSchema.parse: category is one of the
\* enum values or null, nextUpOrder a number or null.
SchemaAccepts(data) ==
  /\ data.category \in BookCategories \cup {NullCategory, UndefinedCategory}
  /\ data.nextUpOrder \in Int

\* data.category || null, data.nextUpOrder || null: a missing value and 0
\* are stored as NULL.
NewBook(n, userId, data) ==
  [id |-> BookId(n), user_id |-> userId,
   category |-> IF data.category = UndefinedCategory THEN NullCategory ELSE data.category,
   next_up_order |-> IF data.nextUpOrder \in {0, Undefined} THEN Null ELSE data.nextUpOrder]

BooksOf(userId) == {b \in books : b.user_id = userId}
BookRequest(kind, authHeader) ==
  [kind |-> kind, pc |-> "done", status |-> 0, error |-> "", user |-> authHeader.token]
Unauthorized(start, authHeader) ==
  [start EXCEPT !.pc = "done", !.status = 401, !.error = authenticateError(authHeader)]

\* GET /api/books, lines 35-71 without the filters: SELECT * FROM books
\* WHERE user_id = $1
BooksList(r, authHeader) ==
  /\ Free(r)
  /\ LET start == [BookRequest("books/list", authHeader) EXCEPT !.status = 200] IN
       Enter(r,
         IF ~authenticate(authHeader) THEN Unauthorized(start, authHeader)
         ELSE start @@ [rows |-> BooksOf(authHeader.token.userId)])
  /\ UNCHANGED <<db, challenges, nextChallenge, issued, now, ticks, books, nextBook, server>>

\* POST /api/books, lines 91-127: one INSERT INTO books
BooksCreate(r, authHeader, data) ==
  /\ Free(r)
  /\ LET start == BookRequest("books/create", authHeader) @@ [data |-> data] IN
       IF ~authenticate(authHeader)
       THEN Enter(r, Unauthorized(start, authHeader)) /\ UNCHANGED <<books, nextBook>>
       ELSE IF ~SchemaAccepts(data)
       THEN /\ Enter(r, [start EXCEPT !.status = 400, !.error = "Invalid input"])
            /\ UNCHANGED <<books, nextBook>>
       ELSE /\ nextBook <= MaxBooks
            /\ books' = books \cup {NewBook(nextBook, authHeader.token.userId, data)}
            /\ nextBook' = nextBook + 1
            /\ Enter(r, [start EXCEPT !.status = 201])
  /\ UNCHANGED <<db, challenges, nextChallenge, issued, now, ticks, server>>

\* The SET clauses of lines 151-186 applied to a row.
UpdatedBook(b, data) ==
  [b EXCEPT !.category = IF data.category = UndefinedCategory THEN @ ELSE data.category,
            !.next_up_order = IF data.nextUpOrder = Undefined THEN @ ELSE data.nextUpOrder]

\* PATCH /api/books/:id, lines 130-216: one UPDATE books SET ... WHERE
\* id = $n AND user_id = $m
BooksUpdate(r, authHeader, id, data) ==
  /\ Free(r)
  /\ LET start == BookRequest("books/update", authHeader) @@ [bookId |-> id, data |-> data]
         rows == {b \in BooksOf(authHeader.token.userId) : b.id = id}
     IN IF ~authenticate(authHeader)
        THEN Enter(r, Unauthorized(start, authHeader)) /\ UNCHANGED books
        ELSE IF ~SchemaAccepts(data)
        THEN Enter(r, [start EXCEPT !.status = 400, !.error = "Invalid input"])
             /\ UNCHANGED books
        ELSE IF data.category = UndefinedCategory /\ data.nextUpOrder = Undefined
        THEN Enter(r, [start EXCEPT !.status = 400, !.error = "No fields to update"])
             /\ UNCHANGED books
        ELSE /\ books' = (books \ rows) \cup {UpdatedBook(b, data) : b \in rows}
             /\ Enter(r, IF rows = {}
                         THEN [start EXCEPT !.status = 404, !.error = "Book not found"]
                         ELSE [start EXCEPT !.status = 200])
  /\ UNCHANGED <<db, challenges, nextChallenge, issued, now, ticks, nextBook, server>>

\* DELETE /api/books/:id, lines 219-233: DELETE FROM books WHERE id = $1 AND
\* user_id = $2
BooksDelete(r, authHeader, id) ==
  /\ Free(r)
  /\ LET start == BookRequest("books/delete", authHeader) @@ [bookId |-> id]
         rows == {b \in BooksOf(authHeader.token.userId) : b.id = id}
     IN IF ~authenticate(authHeader)
        THEN Enter(r, Unauthorized(start, authHeader)) /\ UNCHANGED books
        ELSE /\ books' = books \ rows
             /\ Enter(r, IF rows = {}
                         THEN [start EXCEPT !.status = 404, !.error = "Book not found"]
                         ELSE [start EXCEPT !.status = 204])
  /\ UNCHANGED <<db, challenges, nextChallenge, issued, now, ticks, nextBook, server>>

\* SELECT COALESCE(MAX(next_up_order), -1) FROM books WHERE next_up_order IS
\* NOT NULL AND user_id = $1
MaxOrder(userId) ==
  LET orders == {b.next_up_order : b \in {x \in BooksOf(userId) : x.next_up_order # Null}}
  IN IF orders = {} THEN 0 - 1 ELSE CHOOSE m \in orders : \A o \in orders : o <= m

\* POST /api/books/:id/add-to-next-up, lines 236-245: the SELECT of the
\* largest order.
BooksAddToNextUp(r, authHeader, id) ==
  /\ Free(r)
  /\ LET start == BookRequest("books/add-to-next-up", authHeader) @@
                    [bookId |-> id, nextOrder |-> MaxOrder(authHeader.token.userId) + 1]
     IN Enter(r,
          IF ~authenticate(authHeader) THEN Unauthorized(start, authHeader)
          ELSE [start EXCEPT !.pc = "update"])
  /\ UNCHANGED <<db, challenges, nextChallenge, issued, now, ticks, books, nextBook, server>>

\* Lines 247-257: UPDATE books SET next_up_order = $1 WHERE id = $2 AND
\* user_id = $3
BooksAddToNextUpUpdate(r) ==
  /\ At(r, "books/add-to-next-up", "update")
  /\ LET rows == {b \in BooksOf(req[r].user.userId) : b.id = req[r].bookId} IN
       /\ books' = (books \ rows) \cup
                     {[b EXCEPT !.next_up_order = req[r].nextOrder] : b \in rows}
       /\ IF rows = {} THEN Respond(r, 404, "Book not found") ELSE Respond(r, 200, "")
  /\ UNCHANGED <<db, challenges, nextChallenge, issued, now, ticks, nextBook, server>>

\* POST /api/books/:id/remove-from-next-up, lines 265-279: SELECT
\* next_up_order FROM books WHERE id = $1 AND user_id = $2
BooksRemoveFromNextUp(r, authHeader, id) ==
  /\ Free(r)
  /\ LET start == BookRequest("books/remove-from-next-up", authHeader) @@
                    [bookId |-> id, removedOrder |-> Null]
         rows == {b \in BooksOf(authHeader.token.userId) : b.id = id}
     IN Enter(r,
          IF ~authenticate(authHeader) THEN Unauthorized(start, authHeader)
          ELSE IF rows = {}
          THEN [start EXCEPT !.status = 404, !.error = "Book not found"]
          ELSE [start EXCEPT !.pc = "commit",
                             !.removedOrder = (CHOOSE b \in rows : TRUE).next_up_order])
  /\ UNCHANGED <<db, challenges, nextChallenge, issued, now, ticks, books, nextBook, server>>

\* Lines 282-304: BEGIN, UPDATE books SET next_up_order = NULL WHERE id = $1
\* AND user_id = $2, then, unless removedOrder is null, UPDATE books SET
\* next_up_order = next_up_order - 1 WHERE next_up_order > $1 AND user_id =
\* $2, COMMIT.  The two statements are taken as one step at the COMMIT.
BooksRemoveFromNextUpCommit(r) ==
  /\ At(r, "books/remove-from-next-up", "commit")
  /\ books' =
       {IF b.user_id # req[r].user.userId THEN b
        ELSE IF b.id = req[r].bookId THEN [b EXCEPT !.next_up_order = Null]
        ELSE IF /\ req[r].removedOrder # Null
                /\ b.next_up_order # Null
                /\ b.next_up_order > req[r].removedOrder
        THEN [b EXCEPT !.next_up_order = @ - 1]
        ELSE b : b \in books}
  /\ Respond(r, 200, "")
  /\ UNCHANGED <<db, challenges, nextChallenge, issued, now, ticks, nextBook, server>>

Range(seq) == {seq[i] : i \in DOMAIN seq}

\* POST /api/books/reorder-next-up, lines 356-374: Array.isArray(bookIds)
\* and, for a non-empty array, SELECT COUNT(*) FROM books WHERE id = ANY($1)
\* AND user_id = $2
BooksReorderNextUp(r, authHeader, body) ==
  /\ Free(r)
  /\ LET start == BookRequest("books/reorder-next-up", authHeader) @@
                    [bookIds |-> body.bookIds]
         count == Cardinality({b \in BooksOf(authHeader.token.userId) :
                                 b.id \in Range(body.bookIds)})
     IN Enter(r,
          IF ~authenticate(authHeader) THEN Unauthorized(start, authHeader)
          ELSE IF ~body.isArray
          THEN [start EXCEPT !.status = 400, !.error = "bookIds must be an array"]
          ELSE IF Len(body.bookIds) > 0 /\ count # Len(body.bookIds)
          THEN [start EXCEPT !.status = 403,
                             !.error = "Some books do not belong to this user"]
          ELSE [start EXCEPT !.pc = "commit"])
  /\ UNCHANGED <<db, challenges, nextChallenge, issued, now, ticks, books, nextBook, server>>

\* The order the loop of lines 381-386 leaves a row with: the last index i
\* with bookIds[i] = id, or the one it had.
ReorderedBook(b, bookIds) ==
  LET indexes == {i \in DOMAIN bookIds : bookIds[i] = b.id} IN
  IF indexes = {} THEN b
  ELSE [b EXCEPT !.next_up_order = (CHOOSE i \in indexes : \A j \in indexes : j <= i) - 1]

\* Lines 377-396: BEGIN, for each i UPDATE books SET next_up_order = i WHERE
\* id = bookIds[i] AND user_id = $3, COMMIT; an UPDATE that matches no row is
\* no error.  The statements are taken as one step at the COMMIT.
BooksReorderNextUpCommit(r) ==
  /\ At(r, "books/reorder-next-up", "commit")
  /\ books' = {IF b.user_id = req[r].user.userId THEN ReorderedBook(b, req[r].bookIds) ELSE b :
                 b \in books}
  /\ Respond(r, 200, "")
  /\ UNCHANGED <<db, challenges, nextChallenge, issued, now, ticks, nextBook, server>>

\* A user's next-up list of a category.
NextUpList(userId, category) ==
  {b \in BooksOf(userId) : b.category = category /\ b.next_up_order # Null}

\* ------------------------------------------------------ storage failures
\* pool.query rejects (connection lost, statement error): the handler's
\* catch block answers 500 and the statement has changed nothing.
AwaitsQuery(r) ==
  \/ At(r, "register/options", "checkUsername")
  \/ req[r].kind = "login/verify" /\ req[r].pc \in {"find", "updateCounter"}
  \/ At(r, "login/recovery", "markUsed")
  \/ At(r, "passkeys/add-verify", "insert")
  \/ At(r, "passkeys/delete", "delete")
  \/ req[r].kind = "setup-token/register-verify" /\ req[r].pc \in {"insert", "markUsed"}
  \/ At(r, "books/add-to-next-up", "update")
  \/ At(r, "books/remove-from-next-up", "commit")
  \/ At(r, "books/reorder-next-up", "commit")

CatchMessage(kind) ==
  CASE kind = "register/options" -> "Failed to generate registration options"
    [] kind = "login/verify" -> "Failed to verify login"
    [] kind = "login/recovery" -> "Failed to login with recovery code"
    [] kind = "passkeys/add-verify" -> "Failed to add passkey"
    [] kind = "passkeys/delete" -> "Failed to delete passkey"
    [] kind = "setup-token/register-verify" -> "Failed to complete setup"
    [] kind = "books/add-to-next-up" -> "Failed to add book to next-up list"
    [] kind = "books/remove-from-next-up" -> "Failed to remove book from next-up list"
    [] kind = "books/reorder-next-up" -> "Failed to reorder books"

QueryFails(r) ==
  /\ AwaitsQuery(r)
  /\ Respond(r, 500, CatchMessage(req[r].kind))
  /\ UNCHANGED <<db, challenges, nextChallenge, issued, now, ticks, books, nextBook, server>>

\* ------------------------------------------------------------------ time
\* The clock read by NOW(), new Date() and jwt.verify moves on.
TickSteps == {1, SetupTokenTTL, InvitationTTL, SessionTTL}
Tick(d) ==
  /\ ticks < MaxTicks
  /\ now' = now + d
  /\ ticks' = ticks + 1
  /\ response' = NoResponse
  /\ UNCHANGED <<db, challenges, nextChallenge, issued, req, books, nextBook, server>>

\* ---------------------------------------------------------- specifications
\* The endpoints, by the usernames U and credential ids K clients present.
Registration(U, K) ==
  \/ \E r \in Req, u \in U, i \in InvitationTokenValues \cup {EmptyStr} :
       RegisterOptions(r, u, i)
  \/ \E r \in Req : RegisterOptionsCheckUsername(r)
  \/ \E r \in Req : RegisterOptionsStore(r)
  \/ \E r \in Req, u \in U, c \in NewCredentials(K), i \in InvitationTokenValues \cup {EmptyStr} :
       RegisterVerify(r, u, c, i)
  \/ \E r \in Req : RegisterVerifyGetChallenge(r)
  \/ \E r \in Req : TxCommit(r)
  \/ \E r \in Req : TxFails(r)
  \/ \E r \in Req : RegisterVerifyRespond(r)

Invitation ==
  \E r \in Req, h \in AuthHeaders : InvitationGenerate(r, h)

Validation ==
  \/ \E r \in Req, t \in issued \cup {NoJwt} \cup {ForgedToken(x) : x \in issued} :
       VerifyToken(r, t)
  \/ \E r \in Req, i \in InvitationTokenValues : InvitationValidate(r, i)
  \/ \E r \in Req, t \in SetupTokenValues : SetupTokenValidate(r, t)

Login(U, K) ==
  \/ \E r \in Req, u \in U : LoginOptions(r, u)
  \/ \E r \in Req : LoginOptionsStore(r)
  \/ \E r \in Req, u \in U, c \in Assertions(K) : LoginVerify(r, u, c)
  \/ \E r \in Req : LoginVerifyFind(r)
  \/ \E r \in Req : LoginVerifyUpdateCounter(r)
  \/ \E r \in Req : LoginVerifyRespond(r)

Recovery(U) ==
  \/ \E r \in Req, u \in U, c \in PresentedCodes(U) : LoginRecovery(r, u, c)
  \/ \E r \in Req : LoginRecoveryMarkUsed(r)

Passkeys(K) ==
  \/ \E r \in Req, h \in AuthHeaders : PasskeysList(r, h)
  \/ \E r \in Req, h \in AuthHeaders : PasskeysAddOptions(r, h)
  \/ \E r \in Req : PasskeysAddOptionsStore(r)
  \/ \E r \in Req, h \in AuthHeaders, c \in NewCredentials(K) : PasskeysAddVerify(r, h, c)
  \/ \E r \in Req : PasskeysAddVerifyInsert(r)
  \/ \E r \in Req : PasskeysAddVerifyRespond(r)
  \/ \E r \in Req, h \in AuthHeaders, c \in K : PasskeysDelete(r, h, PasskeyId(c))
  \/ \E r \in Req : PasskeysDeleteRow(r)

Setup(K) ==
  \/ \E r \in Req, h \in AuthHeaders : SetupTokenGenerate(r, h)
  \/ \E r \in Req, t \in SetupTokenValues \cup {EmptyStr} : SetupRegisterOptions(r, t)
  \/ \E r \in Req : SetupRegisterOptionsStore(r)
  \/ \E r \in Req, t \in SetupTokenValues \cup {EmptyStr}, c \in NewCredentials(K) :
       SetupRegisterVerify(r, t, c)
  \/ \E r \in Req : SetupRegisterVerifyGetChallenge(r)
  \/ \E r \in Req : SetupRegisterVerifyInsert(r)
  \/ \E r \in Req : SetupRegisterVerifyMarkUsed(r)
  \/ \E r \in Req : SetupRegisterVerifyRespond(r)

\* The books endpoints, by the headers H, book ids I, create bodies C, update
\* bodies U and reorder bodies L clients present.
Books(H, I, C, U, L) ==
  \/ \E r \in Req, h \in H : BooksList(r, h)
  \/ \E r \in Req, h \in H, d \in C : BooksCreate(r, h, d)
  \/ \E r \in Req, h \in H, id \in I, d \in U : BooksUpdate(r, h, id, d)
  \/ \E r \in Req, h \in H, id \in I : BooksDelete(r, h, id)
  \/ \E r \in Req, h \in H, id \in I : BooksAddToNextUp(r, h, id)
  \/ \E r \in Req : BooksAddToNextUpUpdate(r)
  \/ \E r \in Req, h \in H, id \in I : BooksRemoveFromNextUp(r, h, id)
  \/ \E r \in Req : BooksRemoveFromNextUpCommit(r)
  \/ \E r \in Req, h \in H, l \in L : BooksReorderNextUp(r, h, l)
  \/ \E r \in Req : BooksReorderNextUpCommit(r)

BookData(categories, orders) == [category : categories, nextUpOrder : orders]
ArraysUpTo(ids, n) == UNION {[1..k -> ids] : k \in 0..n}
ReorderBodies(ids, n) ==
  {[isArray |-> TRUE, bookIds |-> l] : l \in ArraysUpTo(ids, n)} \cup
  {[isArray |-> FALSE, bookIds |-> <<>>]}

Failure == \E r \in Req : QueryFails(r)
Clock == \E d \in TickSteps : Tick(d)

Next ==
  \/ Registration(Usernames \cup {EmptyStr}, CredentialIds)
  \/ Invitation
  \/ Validation
  \/ Login(Usernames \cup {EmptyStr}, CredentialIds)
  \/ Recovery(Usernames \cup {EmptyStr})
  \/ Passkeys(CredentialIds)
  \/ Setup(CredentialIds)
  \/ Books(AuthHeaders, BookIds,
           BookData(BookCategories \cup {UndefinedCategory, "poetry"}, {Undefined} \cup 0..MaxBooks),
           BookData(BookCategories \cup {UndefinedCategory, NullCategory},
                    {Undefined, Null} \cup 0..MaxBooks),
           ReorderBodies(BookIds, 2))
  \/ Failure
  \/ Clock

Spec == Init /\ [][Next]_vars

\* The server starts (empty challenge map, no request) against a database in
\* which the first account is registered: what Init reaches by one
\* register/options and one register/verify.  Its session token is held by
\* its owner.
FirstUser == Str("user", 1)
FirstCredential == [challenge |-> 0, id |-> Str("cred", 1), counter |-> 0]
InitRegistered ==
  /\ users = {NewUser(FirstUser, TRUE, EmptyStr)}
  /\ passkey_credentials = {NewPasskey(UserId(FirstUser), FirstCredential)}
  /\ recovery_codes = NewRecoveryCodes(FirstUser)
  /\ invitation_tokens = {}
  /\ setup_tokens = {}
  /\ books = {}
  /\ nextBook = 1
  /\ server = Running
  /\ challenges = [k \in {} |-> 0]
  /\ nextChallenge = 1
  /\ issued = {[userId |-> UserId(FirstUser), username |-> FirstUser, exp |-> SessionTTL]}
  /\ now = 0
  /\ ticks = 0
  /\ req = [r \in Req |-> Idle]
  /\ response = NoResponse

\* The first account and one that does not exist; its credential and one
\* that is not registered.
TwoUsernames == {FirstUser, Str("user", MaxUsers)}
TwoCredentialIds == {FirstCredential.id, Str("cred", MaxCredentialIds)}

\* The registration endpoints, from an empty database.
NextBootstrap == Registration(TwoUsernames, TwoCredentialIds) \/ Failure
SpecBootstrap == Init /\ [][NextBootstrap]_vars

\* The registration and invitation endpoints once the first account exists.
NextRegistration ==
  Registration(Usernames, CredentialIds \ {FirstCredential.id}) \/ Invitation \/ Failure
SpecRegistration == InitRegistered /\ [][NextRegistration]_vars

\* The recovery-code login.
NextRecovery == Recovery(TwoUsernames) \/ Failure
SpecRecovery == InitRegistered /\ [][NextRecovery]_vars

\* The passkey management endpoints.
NextPasskeys == Passkeys(TwoCredentialIds) \/ Failure
SpecPasskeys == InitRegistered /\ [][NextPasskeys]_vars

\* Adding a passkey with a setup token.
NextSetup == Setup(CredentialIds \ {FirstCredential.id}) \/ Failure
SpecSetup == InitRegistered /\ [][NextSetup]_vars

\* The endpoints that take an invitation or a setup token, one request at a
\* time, while the clock moves to one second before the expiry of a token
\* minted at time 0 and then on by seconds, past the expiry.
ExpirySteps == IF ticks = 0 THEN {SetupTokenTTL - 1, InvitationTTL - 1} ELSE {1}
ExpiryUser == Str("user", 2)
ExpiryCredentials == NewCredentials({Str("cred", 2)})
NextExpiry ==
  \/ \E i \in InvitationTokenValues : RegisterOptions(1, ExpiryUser, i)
  \/ RegisterOptionsCheckUsername(1)
  \/ RegisterOptionsStore(1)
  \/ \E c \in ExpiryCredentials, i \in InvitationTokenValues :
       RegisterVerify(1, ExpiryUser, c, i)
  \/ RegisterVerifyGetChallenge(1)
  \/ TxCommit(1)
  \/ RegisterVerifyRespond(1)
  \/ \E h \in AuthHeaders : InvitationGenerate(1, h)
  \/ \E i \in InvitationTokenValues : InvitationValidate(1, i)
  \/ \E h \in AuthHeaders : SetupTokenGenerate(1, h)
  \/ \E t \in SetupTokenValues : SetupTokenValidate(1, t)
  \/ \E t \in SetupTokenValues : SetupRegisterOptions(1, t)
  \/ SetupRegisterOptionsStore(1)
  \/ \E t \in SetupTokenValues, c \in ExpiryCredentials : SetupRegisterVerify(1, t, c)
  \/ SetupRegisterVerifyGetChallenge(1)
  \/ SetupRegisterVerifyInsert(1)
  \/ SetupRegisterVerifyMarkUsed(1)
  \/ SetupRegisterVerifyRespond(1)
  \/ \E d \in ExpirySteps : Tick(d)
SpecExpiry == InitRegistered /\ [][NextExpiry]_vars

\* One ceremony of each kind, side by side on the challenge map: a
\* registration with an invitation, a login, an added passkey and a setup
\* token.
NextChallenges ==
  \/ Registration({Str("user", 2)}, {Str("cred", 2)})
  \/ Invitation
  \/ Login({FirstUser}, {FirstCredential.id})
  \/ Passkeys({Str("cred", MaxCredentialIds)})
  \/ Setup({Str("cred", MaxCredentialIds)})
SpecChallenges == InitRegistered /\ [][NextChallenges]_vars

\* The login ceremony with abandoned challenges: once every challenge the
\* bound allows has been issued, the clock moves on by more than the
\* challenge TTL the security review recommends (five minutes).
ChallengeTTL == 5 * 60
NextAbandoned ==
  \/ Login(TwoUsernames, TwoCredentialIds)
  \/ nextChallenge > MaxChallenges /\ Tick(ChallengeTTL + 1)
SpecAbandoned == InitRegistered /\ [][NextAbandoned]_vars

\* The database after a second account has registered with an invitation of
\* the first: what InitRegistered reaches by invitation/generate,
\* register/options and register/verify.  Both session tokens are held by
\* their owners.
SecondUser == Str("user", 2)
SecondCredential == [challenge |-> 0, id |-> Str("cred", 2), counter |-> 0]
InitTwoUsers ==
  /\ users = {NewUser(FirstUser, TRUE, EmptyStr), NewUser(SecondUser, FALSE, InvitationId(1))}
  /\ passkey_credentials = {NewPasskey(UserId(FirstUser), FirstCredential),
                            NewPasskey(UserId(SecondUser), SecondCredential)}
  /\ recovery_codes = NewRecoveryCodes(FirstUser) \cup NewRecoveryCodes(SecondUser)
  /\ invitation_tokens =
       {[id |-> InvitationId(1), created_by |-> UserId(FirstUser),
         token |-> Str("invite", 1), expires_at |-> InvitationTTL,
         used |-> TRUE, used_at |-> 0, used_by |-> UserId(SecondUser)]}
  /\ setup_tokens = {}
  /\ books = {}
  /\ nextBook = 1
  /\ server = Running
  /\ challenges = [k \in {} |-> 0]
  /\ nextChallenge = 1
  /\ issued = {[userId |-> UserId(FirstUser), username |-> FirstUser, exp |-> SessionTTL],
               [userId |-> UserId(SecondUser), username |-> SecondUser, exp |-> SessionTTL]}
  /\ now = 0
  /\ ticks = 0
  /\ req = [r \in Req |-> Idle]
  /\ response = NoResponse

\* Two accounts side by side, one request at a time: each signs in with a
\* passkey or a recovery code, its own or the other's, and lists, adds and
\* deletes passkeys.
TwoUsers == {FirstUser, SecondUser}
NextTwoUsers ==
  \/ \E u \in TwoUsers : LoginOptions(1, u)
  \/ LoginOptionsStore(1)
  \/ \E u \in TwoUsers, c \in Assertions({FirstCredential.id, SecondCredential.id}) :
       LoginVerify(1, u, c)
  \/ LoginVerifyFind(1)
  \/ LoginVerifyUpdateCounter(1)
  \/ LoginVerifyRespond(1)
  \/ \E u \in TwoUsers, c \in PresentedCodes(TwoUsers) : LoginRecovery(1, u, c)
  \/ LoginRecoveryMarkUsed(1)
  \/ \E h \in AuthHeaders : PasskeysList(1, h)
  \/ \E h \in AuthHeaders : PasskeysAddOptions(1, h)
  \/ PasskeysAddOptionsStore(1)
  \/ \E h \in AuthHeaders, c \in NewCredentials({Str("cred", MaxCredentialIds)}) :
       PasskeysAddVerify(1, h, c)
  \/ PasskeysAddVerifyInsert(1)
  \/ PasskeysAddVerifyRespond(1)
  \/ \E h \in AuthHeaders, c \in CredentialIds : PasskeysDelete(1, h, PasskeyId(c))
  \/ PasskeysDeleteRow(1)
SpecTwoUsers == InitTwoUsers /\ [][NextTwoUsers]_vars

\* The next-up lists of the first account, one request at a time: it puts
\* every book it creates on the fiction list, and moves, removes, reorders
\* and recategorizes the first and deletes the second.  Adding to the list
\* stops once the largest order has reached the number of books.
NextUpBook == [category |-> "fiction", nextUpOrder |-> 1]
NextUpUpdates ==
  {[category |-> "nonfiction", nextUpOrder |-> Undefined],
   [category |-> UndefinedCategory, nextUpOrder |-> Null],
   [category |-> UndefinedCategory, nextUpOrder |-> Undefined]}
NextNextUp ==
  \/ \E h \in AuthHeaders : BooksList(1, h)
  \/ \E h \in AuthHeaders : BooksCreate(1, h, NextUpBook)
  \/ \E h \in AuthHeaders, d \in NextUpUpdates : BooksUpdate(1, h, BookId(1), d)
  \/ \E h \in AuthHeaders : BooksDelete(1, h, BookId(2))
  \/ \E h \in AuthHeaders :
       MaxOrder(UserId(FirstUser)) < MaxBooks /\ BooksAddToNextUp(1, h, BookId(1))
  \/ BooksAddToNextUpUpdate(1)
  \/ \E h \in AuthHeaders : BooksRemoveFromNextUp(1, h, BookId(1))
  \/ BooksRemoveFromNextUpCommit(1)
  \/ \E h \in AuthHeaders, l \in ReorderBodies({BookId(1)}, 1) : BooksReorderNextUp(1, h, l)
  \/ BooksReorderNextUpCommit(1)
  \/ QueryFails(1)
SpecNextUp == InitRegistered /\ [][NextNextUp]_vars

\* The endpoints behind authenticate, one request at a time, with headers
\* of every form, while the clock moves to one second before the expiry of
\* the session token and then on by seconds.  A run stays in one area of the
\* API: passkeys, tokens or books.
AnyAuthHeaders == AuthHeaders \cup MalformedAuthHeaders
SessionSteps == IF ticks = 0 THEN {SessionTTL - 1} ELSE {1}
AuthCredentials == NewCredentials({Str("cred", MaxCredentialIds)})
AuthBook == [category |-> "fiction", nextUpOrder |-> Undefined]
AuthBookUpdate == [category |-> UndefinedCategory, nextUpOrder |-> Null]
AuthReorder == [isArray |-> TRUE, bookIds |-> <<BookId(1)>>]
PasskeysUntouched ==
  passkey_credentials = {NewPasskey(UserId(FirstUser), FirstCredential)} /\ nextChallenge = 1
TokensUntouched == invitation_tokens = {} /\ setup_tokens = {}
BooksUntouched == nextBook = 1
NextAuth ==
  \/ \E h \in AnyAuthHeaders :
       PasskeysUntouched /\ BooksUntouched /\ InvitationGenerate(1, h)
  \/ \E h \in AnyAuthHeaders :
       PasskeysUntouched /\ BooksUntouched /\ SetupTokenGenerate(1, h)
  \/ \E h \in AnyAuthHeaders : PasskeysList(1, h)
  \/ \E h \in AnyAuthHeaders :
       TokensUntouched /\ BooksUntouched /\ PasskeysAddOptions(1, h)
  \/ PasskeysAddOptionsStore(1)
  \/ \E h \in AnyAuthHeaders, c \in AuthCredentials : PasskeysAddVerify(1, h, c)
  \/ PasskeysAddVerifyInsert(1)
  \/ PasskeysAddVerifyRespond(1)
  \/ \E h \in AnyAuthHeaders : PasskeysDelete(1, h, PasskeyId(FirstCredential.id))
  \/ PasskeysDeleteRow(1)
  \/ \E h \in AnyAuthHeaders : BooksList(1, h)
  \/ \E h \in AnyAuthHeaders :
       PasskeysUntouched /\ TokensUntouched /\ BooksUntouched /\ BooksCreate(1, h, AuthBook)
  \/ \E h \in AnyAuthHeaders : BooksUpdate(1, h, BookId(1), AuthBookUpdate)
  \/ \E h \in AnyAuthHeaders : BooksDelete(1, h, BookId(1))
  \/ \E h \in AnyAuthHeaders :
       MaxOrder(UserId(FirstUser)) < 0 /\ BooksAddToNextUp(1, h, BookId(1))
  \/ BooksAddToNextUpUpdate(1)
  \/ \E h \in AnyAuthHeaders : BooksRemoveFromNextUp(1, h, BookId(1))
  \/ BooksRemoveFromNextUpCommit(1)
  \/ \E h \in AnyAuthHeaders : BooksReorderNextUp(1, h, AuthReorder)
  \/ BooksReorderNextUpCommit(1)
  \/ \E d \in SessionSteps : Tick(d)
SpecAuth == InitRegistered /\ [][NextAuth]_vars

\* Session tokens, one request at a time: the four ways to get one (a
\* registration with an invitation, a login, a recovery login, a setup
\* token), of which a run takes one, the two ways to have one validated
\* (verify-token and a request behind authenticate), and a clock that moves
\* by one second or to one second before thirty days.
SessionUser == Str("user", 2)
SessionCredentials == NewCredentials({Str("cred", 2)})
SessionClock == {1, SessionTTL - 1}
PresentedTokens == issued \cup {NoJwt} \cup {ForgedToken(x) : x \in issued}
NoInvitation == invitation_tokens = {}
NoSetupToken == setup_tokens = {}
NoCodeUsed == \A row \in recovery_codes : row.used = FALSE
NoChallenge == nextChallenge = 1
NextSession ==
  \/ \E h \in AuthHeaders :
       NoSetupToken /\ NoCodeUsed /\ NoChallenge /\ InvitationGenerate(1, h)
  \/ \E i \in InvitationTokenValues : RegisterOptions(1, SessionUser, i)
  \/ RegisterOptionsCheckUsername(1)
  \/ RegisterOptionsStore(1)
  \/ \E c \in SessionCredentials, i \in InvitationTokenValues :
       RegisterVerify(1, SessionUser, c, i)
  \/ RegisterVerifyGetChallenge(1)
  \/ TxCommit(1)
  \/ RegisterVerifyRespond(1)
  \/ NoInvitation /\ NoSetupToken /\ NoCodeUsed /\ LoginOptions(1, FirstUser)
  \/ LoginOptionsStore(1)
  \/ \E c \in Assertions({FirstCredential.id}) : LoginVerify(1, FirstUser, c)
  \/ LoginVerifyFind(1)
  \/ LoginVerifyUpdateCounter(1)
  \/ LoginVerifyRespond(1)
  \/ /\ NoInvitation /\ NoSetupToken /\ NoChallenge
     /\ LoginRecovery(1, FirstUser, RecoveryCodeText(FirstUser, 1))
  \/ LoginRecoveryMarkUsed(1)
  \/ \E h \in AuthHeaders :
       NoInvitation /\ NoCodeUsed /\ NoChallenge /\ SetupTokenGenerate(1, h)
  \/ \E t \in SetupTokenValues : SetupRegisterOptions(1, t)
  \/ SetupRegisterOptionsStore(1)
  \/ \E t \in SetupTokenValues, c \in SessionCredentials : SetupRegisterVerify(1, t, c)
  \/ SetupRegisterVerifyGetChallenge(1)
  \/ SetupRegisterVerifyInsert(1)
  \/ SetupRegisterVerifyMarkUsed(1)
  \/ SetupRegisterVerifyRespond(1)
  \/ \E t \in PresentedTokens : VerifyToken(1, t)
  \/ \E h \in AuthHeaders : PasskeysList(1, h)
  \/ \E d \in SessionClock : Tick(d)
SpecSession == InitRegistered /\ [][NextSession]_vars

\* The process is started against the database of the first account with
\* whatever the environment holds; once it runs it serves the login
\* endpoints, one request at a time.
InitStarting ==
  /\ users = {NewUser(FirstUser, TRUE, EmptyStr)}
  /\ passkey_credentials = {NewPasskey(UserId(FirstUser), FirstCredential)}
  /\ recovery_codes = NewRecoveryCodes(FirstUser)
  /\ invitation_tokens = {}
  /\ setup_tokens = {}
  /\ books = {}
  /\ nextBook = 1
  /\ server = Starting
  /\ challenges = [k \in {} |-> 0]
  /\ nextChallenge = 1
  /\ issued = {}
  /\ now = 0
  /\ ticks = 0
  /\ req = [r \in Req |-> Idle]
  /\ response = NoResponse
Serving == server.state = "running"
NextStartup ==
  \/ \E secret \in EnvSecrets : LoadModules(secret)
  \/ \E u \in TwoUsernames : Serving /\ LoginOptions(1, u)
  \/ Serving /\ LoginOptionsStore(1)
  \/ \E u \in TwoUsernames, c \in Assertions(TwoCredentialIds) : Serving /\ LoginVerify(1, u, c)
  \/ Serving /\ LoginVerifyFind(1)
  \/ Serving /\ LoginVerifyUpdateCounter(1)
  \/ Serving /\ LoginVerifyRespond(1)
  \/ \E t \in PresentedTokens : Serving /\ VerifyToken(1, t)
SpecStartup == InitStarting /\ [][NextStartup]_vars

\* Logins of the first account with an authenticator that counts its
\* signatures, two requests in flight.
NextCounter ==
  \/ \E r \in Req : LoginOptions(r, FirstUser)
  \/ \E r \in Req : LoginOptionsStore(r)
  \/ \E r \in Req, c \in CountingAssertions({FirstCredential.id}) : LoginVerify(r, FirstUser, c)
  \/ \E r \in Req : LoginVerifyFind(r)
  \/ \E r \in Req : LoginVerifyUpdateCounter(r)
  \/ \E r \in Req : LoginVerifyRespond(r)
SpecCounter == InitRegistered /\ [][NextCounter]_vars

\* Registrations by invitation next to logins, one request at a time:
\* register/options is only ever called for InvitedUser, register/verify is
\* called for InvitedUser and for UninvitedUser, and login/options is called
\* for the first account and for the username that reads as UninvitedUser,
\* a colon and the invitation token.
InvitedUser == Str("user", 2)
UninvitedUser == Str("user", MaxUsers)
LoginNames ==
  {FirstUser} \cup {RegisterChallengeKey(UninvitedUser, i) : i \in InvitationTokenValues}
NextKeys ==
  \/ \E h \in AuthHeaders : InvitationGenerate(1, h)
  \/ \E i \in InvitationTokenValues : RegisterOptions(1, InvitedUser, i)
  \/ RegisterOptionsCheckUsername(1)
  \/ RegisterOptionsStore(1)
  \/ \E u \in {InvitedUser, UninvitedUser}, c \in NewCredentials({Str("cred", 2)}),
        i \in InvitationTokenValues : RegisterVerify(1, u, c, i)
  \/ RegisterVerifyGetChallenge(1)
  \/ TxCommit(1)
  \/ RegisterVerifyRespond(1)
  \/ \E u \in LoginNames : LoginOptions(1, u)
  \/ LoginOptionsStore(1)
  \/ \E u \in LoginNames, c \in Assertions({FirstCredential.id}) : LoginVerify(1, u, c)
  \/ LoginVerifyFind(1)
  \/ LoginVerifyUpdateCounter(1)
  \/ LoginVerifyRespond(1)
SpecKeys == InitRegistered /\ [][NextKeys]_vars

\* Registrations one request at a time, from an empty database or from the
\* database of the first account, with an invitation and without, while the
\* clock may move past the expiry of an invitation.
InitEmptyOrRegistered == Init \/ InitRegistered
RevalidationUsers == {FirstUser, Str("user", 2), Str("user", MaxUsers)}
RevalidationCredentials == NewCredentials({Str("cred", 2)})
NextRevalidation ==
  \/ \E h \in AuthHeaders : InvitationGenerate(1, h)
  \/ \E u \in RevalidationUsers, i \in InvitationTokenValues \cup {EmptyStr} :
       RegisterOptions(1, u, i)
  \/ RegisterOptionsCheckUsername(1)
  \/ RegisterOptionsStore(1)
  \/ \E u \in RevalidationUsers, c \in RevalidationCredentials,
        i \in InvitationTokenValues \cup {EmptyStr} : RegisterVerify(1, u, c, i)
  \/ RegisterVerifyGetChallenge(1)
  \/ TxCommit(1)
  \/ RegisterVerifyRespond(1)
  \/ ticks = 0 /\ Tick(InvitationTTL + 1)
SpecRevalidation == InitEmptyOrRegistered /\ [][NextRevalidation]_vars

\* Everything that touches an account after the first has registered, one
\* request at a time: a second registration by invitation, recovery logins
\* of both accounts, added and deleted passkeys, a setup-token enrolment,
\* and storage failures.
CodesCredentials == NewCredentials({Str("cred", MaxCredentialIds)})
NextCodes ==
  \/ \E h \in AuthHeaders : InvitationGenerate(1, h)
  \/ \E i \in InvitationTokenValues : RegisterOptions(1, SecondUser, i)
  \/ RegisterOptionsCheckUsername(1)
  \/ RegisterOptionsStore(1)
  \/ \E c \in NewCredentials({SecondCredential.id}), i \in InvitationTokenValues :
       RegisterVerify(1, SecondUser, c, i)
  \/ RegisterVerifyGetChallenge(1)
  \/ TxCommit(1)
  \/ TxFails(1)
  \/ RegisterVerifyRespond(1)
  \/ \E u \in TwoUsers, c \in PresentedCodes(TwoUsers) : LoginRecovery(1, u, c)
  \/ LoginRecoveryMarkUsed(1)
  \/ \E h \in AuthHeaders : PasskeysAddOptions(1, h)
  \/ PasskeysAddOptionsStore(1)
  \/ \E h \in AuthHeaders, c \in CodesCredentials : PasskeysAddVerify(1, h, c)
  \/ PasskeysAddVerifyInsert(1)
  \/ PasskeysAddVerifyRespond(1)
  \/ \E h \in AuthHeaders, c \in CredentialIds : PasskeysDelete(1, h, PasskeyId(c))
  \/ PasskeysDeleteRow(1)
  \/ \E h \in AuthHeaders : SetupTokenGenerate(1, h)
  \/ \E t \in SetupTokenValues : SetupRegisterOptions(1, t)
  \/ SetupRegisterOptionsStore(1)
  \/ \E t \in SetupTokenValues, c \in CodesCredentials : SetupRegisterVerify(1, t, c)
  \/ SetupRegisterVerifyGetChallenge(1)
  \/ SetupRegisterVerifyInsert(1)
  \/ SetupRegisterVerifyMarkUsed(1)
  \/ SetupRegisterVerifyRespond(1)
  \/ QueryFails(1)
SpecCodes == InitRegistered /\ [][NextCodes]_vars

\* Added passkeys next to logins, two accounts, one request at a time:
\* add-options is only ever called by the second account, add-verify by
\* both, and login/options is called for the first account and for the
\* username that reads 'add-' followed by the first account's user id.
OthersHeaders == {h \in AuthHeaders : h.token.userId # UserId(FirstUser)}
AddLoginNames == {FirstUser, AddChallengeKey(UserId(FirstUser))}
NextAddKeys ==
  \/ \E u \in AddLoginNames : LoginOptions(1, u)
  \/ LoginOptionsStore(1)
  \/ \E u \in AddLoginNames, c \in Assertions({FirstCredential.id}) : LoginVerify(1, u, c)
  \/ LoginVerifyFind(1)
  \/ LoginVerifyUpdateCounter(1)
  \/ LoginVerifyRespond(1)
  \/ \E h \in OthersHeaders : PasskeysAddOptions(1, h)
  \/ PasskeysAddOptionsStore(1)
  \/ \E h \in AuthHeaders, c \in NewCredentials({Str("cred", MaxCredentialIds)}) :
       PasskeysAddVerify(1, h, c)
  \/ PasskeysAddVerifyInsert(1)
  \/ PasskeysAddVerifyRespond(1)
SpecAddKeys == InitTwoUsers /\ [][NextAddKeys]_vars

\* The options calls of the four ceremonies, two requests in flight, from an
\* empty database or from the database of the first account.  The usernames
\* presented to login/options are those of accounts and the strings that
\* read as a username, a colon and an invitation token, as 'add-' and a
\* user id, and as 'setup-' and a setup token.
KeySpaceNames ==
  {FirstUser, SecondUser}
    \cup {RegisterChallengeKey(SecondUser, i) : i \in InvitationTokenValues}
    \cup {AddChallengeKey(UserId(FirstUser))}
    \cup {SetupChallengeKey(t) : t \in SetupTokenValues}
NextKeySpace ==
  \/ \E r \in Req, h \in AuthHeaders : InvitationGenerate(r, h)
  \/ \E r \in Req, i \in InvitationTokenValues \cup {EmptyStr} :
       RegisterOptions(r, SecondUser, i)
  \/ \E r \in Req : RegisterOptionsCheckUsername(r)
  \/ \E r \in Req : RegisterOptionsStore(r)
  \/ \E r \in Req, u \in KeySpaceNames : LoginOptions(r, u)
  \/ \E r \in Req : LoginOptionsStore(r)
  \/ \E r \in Req, h \in AuthHeaders : PasskeysAddOptions(r, h)
  \/ \E r \in Req : PasskeysAddOptionsStore(r)
  \/ \E r \in Req, h \in AuthHeaders : SetupTokenGenerate(r, h)
  \/ \E r \in Req, t \in SetupTokenValues : SetupRegisterOptions(r, t)
  \/ \E r \in Req : SetupRegisterOptionsStore(r)
SpecKeySpace == InitEmptyOrRegistered /\ [][NextKeySpace]_vars

\* Reordering while books come and go: two accounts create up to three
\* books between them and delete them on the second request slot while a
\* reorder-next-up of up to two of them is in flight on the first.
ReorderBook == [category |-> "fiction", nextUpOrder |-> Undefined]
ReorderIds == {BookId(1), BookId(2)}
NextReorder ==
  \/ \E h \in AuthHeaders : nextBook <= 3 /\ BooksCreate(2, h, ReorderBook)
  \/ \E h \in AuthHeaders, id \in ReorderIds : BooksDelete(2, h, id)
  \/ \E h \in AuthHeaders, l \in ReorderBodies(ReorderIds, 2) : BooksReorderNextUp(1, h, l)
  \/ BooksReorderNextUpCommit(1)
  \/ QueryFails(1)
SpecReorder == InitTwoUsers /\ [][NextReorder]_vars

\* The next-up list of the first account under add and remove alone: it
\* creates up to three books that are on no list, and adds them to and
\* removes them from the list on either request slot.  Adding stops once the
\* largest order has reached three.
NextNextUpList ==
  \/ \E h \in AuthHeaders : nextBook <= 3 /\ BooksCreate(1, h, ReorderBook)
  \/ \E r \in Req, h \in AuthHeaders, id \in ReorderIds :
       MaxOrder(UserId(FirstUser)) < 3 /\ BooksAddToNextUp(r, h, id)
  \/ \E r \in Req : BooksAddToNextUpUpdate(r)
  \/ \E r \in Req, h \in AuthHeaders, id \in ReorderIds : BooksRemoveFromNextUp(r, h, id)
  \/ \E r \in Req : BooksRemoveFromNextUpCommit(r)
SpecNextUpList == InitRegistered /\ [][NextNextUpList]_vars

\* ------------------------------------------------- Open Library cover ids
\* utils/bookCovers.ts fetchOpenLibraryCoverId(isbn13, isbn). An ISBN is
\* null, the empty string or a string of digits; null and '' are both falsy.
NullIsbn == << <<"null", 0>> >>
Isbn13s == {NullIsbn, EmptyStr, Str("isbn13", 1)}
Isbns == {NullIsbn, EmptyStr, Str("isbn", 1)}
Falsy(s) == s = NullIsbn \/ s = EmptyStr
\* const isbnToUse = isbn13 || isbn
IsbnToUse(isbn13, isbn) == IF Falsy(isbn13) THEN isbn ELSE isbn13
UrlPrefix == <<"lit", 4>>
UrlSuffix == <<"lit", 5>>
\* `https://openlibrary.org/isbn/${isbnToUse}.json`
EditionUrl(isbnToUse) == <<UrlPrefix>> \o isbnToUse \o <<UrlSuffix>>
\* The ids of a covers array: deleted covers (negative), zero and real ids.
CoverIds == {0 - 5, 0 - 1, 0, 111, 222}
CoverArrays == UNION {[1..n -> CoverIds] : n \in 0..MaxCovers}
\* What fetch and response.json() can give: fetch rejects; a response that
\* is not ok; a body that is not JSON; an edition without covers; an edition
\* with a covers array.
NoCovers == [ok |-> TRUE, json |-> TRUE, hasCovers |-> FALSE, covers |-> <<>>]
FetchOutcomes ==
  {[kind |-> "throws", reply |-> NoCovers]} \cup
  {[kind |-> "response", reply |-> [NoCovers EXCEPT !.ok = FALSE]]} \cup
  {[kind |-> "response", reply |-> [NoCovers EXCEPT !.json = FALSE]]} \cup
  {[kind |-> "response", reply |-> NoCovers]} \cup
  {[kind |-> "response", reply |-> [NoCovers EXCEPT !.hasCovers = TRUE, !.covers = c]] :
     c \in CoverArrays}
\* A number | null result: <<>> is null, <<id>> is the number id.
NullCoverId == <<>>
\* data.covers.find((id) => id >= 0) ?? null
FindNonNegativeCover(covers) ==
  IF \E i \in DOMAIN covers : covers[i] >= 0
  THEN <<covers[CHOOSE i \in DOMAIN covers :
                  covers[i] >= 0 /\ \A j \in 1..(i - 1) : ~(covers[j] >= 0)]>>
  ELSE NullCoverId
\* data.covers.find((id) => id > 0) ?? null
FindValidCover(covers) ==
  IF \E i \in DOMAIN covers : covers[i] > 0
  THEN <<covers[CHOOSE i \in DOMAIN covers :
                  covers[i] > 0 /\ \A j \in 1..(i - 1) : ~(covers[j] > 0)]>>
  ELSE NullCoverId
\* The call up to its await: no ISBN returns null, else the fetch is sent.
FetchOpenLibraryCoverId(r, isbn13, isbn) ==
  /\ Free(r)
  /\ LET call == [kind |-> "fetchOpenLibraryCoverId", pc |-> "fetch",
                  isbn13 |-> isbn13, isbn |-> isbn, url |-> EmptyStr,
                  outcome |-> [kind |-> "none", reply |-> NoCovers],
                  threw |-> FALSE, result |-> NullCoverId]
     IN IF Falsy(IsbnToUse(isbn13, isbn))
        THEN Enter(r, [call EXCEPT !.pc = "done"])
        ELSE Enter(r, [call EXCEPT !.url = EditionUrl(IsbnToUse(isbn13, isbn))])
  /\ UNCHANGED <<db, books, nextBook, challenges, nextChallenge, issued, now, ticks, server>>

\* The rest of the try block once fetch settles; catch { return null }.
FetchOpenLibraryCoverIdSettles(r, outcome) ==
  /\ At(r, "fetchOpenLibraryCoverId", "fetch")
  /\ LET reply == outcome.reply
         result ==
           IF outcome.kind = "throws" THEN NullCoverId
           ELSE IF ~reply.ok THEN NullCoverId
           ELSE IF ~reply.json THEN NullCoverId
           ELSE IF ~reply.hasCovers \/ Len(reply.covers) = 0 THEN NullCoverId
           ELSE FindValidCover(reply.covers)
     IN Enter(r, [req[r] EXCEPT !.pc = "done", !.outcome = outcome, !.result = result])
  /\ UNCHANGED <<db, books, nextBook, challenges, nextChallenge, issued, now, ticks, server>>

NextCovers ==
  \/ \E r \in Req, isbn13 \in Isbn13s, isbn \in Isbns : FetchOpenLibraryCoverId(r, isbn13, isbn)
  \/ \E r \in Req, outcome \in FetchOutcomes : FetchOpenLibraryCoverIdSettles(r, outcome)
SpecCovers == Init /\ [][NextCovers]_vars

\* The login ceremony.
NextLogin == Login(TwoUsernames, TwoCredentialIds) \/ Failure
SpecLogin == InitRegistered /\ [][NextLogin]_vars

\* ------------------------------------------------------------- properties
CredentialsOf(userId) == {c \in passkey_credentials : c.user_id = userId}
LastCredentialError(answer) ==
  /\ answer # NoResponse
  /\ answer.kind = "passkeys/delete"
  /\ answer.status = 400
  /\ answer.error = "Cannot delete your only passkey"

\* C1: in every reachable state every registered user owns at least one
\* passkey credential, whatever the interleaving of DELETE /passkeys/:id and
\* add-verify requests.
EveryUserHasACredential ==
  \A u \in users : CredentialsOf(u.id) # {}

\* C2: a DELETE /passkeys/:id by a user who owns exactly one credential is
\* answered 400 'Cannot delete your only passkey' and leaves the credential
\* in place; a DELETE by a user who owns two goes on to its DELETE statement,
\* and that statement, for either credential the user still owns, removes the
\* row and answers 200.
LastCredentialRefused ==
  [][\A r \in Req :
       /\ \A h \in AuthHeaders, k \in PasskeyIds :
            (PasskeysDelete(r, h, k) /\ authenticate(h)) =>
              /\ Cardinality(CredentialsOf(h.token.userId)) = 1 =>
                   LastCredentialError(response') /\ UNCHANGED passkey_credentials
              /\ Cardinality(CredentialsOf(h.token.userId)) = 2 =>
                   At(r, "passkeys/delete", "delete")'
       /\ (/\ PasskeysDeleteRow(r)
           /\ \E c \in CredentialsOf(req[r].user.userId) : c.id = req[r].passkeyId) =>
            /\ response'.status = 200
            /\ \A c \in passkey_credentials' : c.id # req[r].passkeyId
            /\ \A c \in passkey_credentials :
                 c.id # req[r].passkeyId => c \in passkey_credentials'
    ]_vars

\* C2 witness: the user added a second credential and deleted the first one;
\* the DELETE of the one that is left has just been refused with
\* LastCredentialError, and it is still there.
LastCredentialJustRefused ==
  /\ LastCredentialError(response)
  /\ Cardinality(CredentialsOf(response.user.userId)) = 1
  /\ \A c \in CredentialsOf(response.user.userId) :
       c.credential_id # FirstCredential.id /\ c.id = response.passkeyId

\* C3: a recovery login issues a session token only for a code that no
\* earlier recovery login has used: when the login marks its matched code and
\* answers 200, that code was still unused.
RecoveryCodeUsedOnce ==
  [][\A r \in Req :
       LoginRecoveryMarkUsed(r) =>
         \E row \in recovery_codes : row.id = req[r].matchedCodeId /\ row.used = FALSE
    ]_vars

\* Every unused code, typed as it was issued, is still found by the lookup
\* of login/recovery.
UnusedCodesMatch ==
  \A row \in recovery_codes :
    row.used = FALSE =>
      row \in MatchingCodes(row.user_id, RecoveryCodeText(row.id[1], row.id[2]))

\* C4: a successful recovery login marks the one matched recovery-code row as
\* used and changes no other row: every other code stays as it was and still
\* logs in, and no user, credential, invitation or setup-token row changes.
RecoveryLoginMarksOnlyMatched ==
  [][\A r \in Req :
       LoginRecoveryMarkUsed(r) =>
         /\ response'.status = 200
         /\ \E row \in recovery_codes' : row.id = req[r].matchedCodeId /\ row.used = TRUE
         /\ \A row \in recovery_codes :
              row.id # req[r].matchedCodeId => row \in recovery_codes'
         /\ Cardinality(recovery_codes') = Cardinality(recovery_codes)
         /\ UnusedCodesMatch'
         /\ UNCHANGED <<users, passkey_credentials, invitation_tokens, setup_tokens>>
    ]_vars

\* C4 witness: a recovery login has just succeeded; its code is the only used
\* one of the ten and the other nine are unused.
OneCodeJustUsed ==
  /\ response # NoResponse
  /\ response.kind = "login/recovery"
  /\ response.status = 200
  /\ Cardinality({row \in recovery_codes : row.used}) = 1
  /\ Cardinality({row \in recovery_codes :
                    row.user_id = UserId(response.username) /\ row.used = FALSE})
       = NumRecoveryCodes - 1

InvitationUsed(token) == \E t \in invitation_tokens : t.token = token /\ t.used
AlreadyUsedError(answer) ==
  /\ answer # NoResponse
  /\ answer.status = 403
  /\ answer.error = "This invitation has already been used"
NewUsernames == Usernames \ {FirstUser}

\* C5: the registration that commits with an invitation creates its user and
\* marks the invitation used, linked to that user; from then on a
\* register/options or register/verify request presenting the token is
\* answered 403 'This invitation has already been used', before the token's
\* expiry too, and creates no user.
InvitationSingleUse ==
  [][\A r \in Req :
       /\ (/\ TxCommit(r)
           /\ ~UsernameTaken(req[r].username)
           /\ ~CredentialIdTaken(req[r].credential.id)) =>
            /\ \E u \in users' \ users : u.id = UserId(req[r].username)
            /\ \E t \in invitation_tokens' :
                 /\ t.id = req[r].invitationId
                 /\ t.used = TRUE
                 /\ t.used_by = UserId(req[r].username)
       /\ \A u \in Usernames, i \in InvitationTokenValues :
            InvitationUsed(i) =>
              /\ RegisterOptions(r, u, i) =>
                   AlreadyUsedError(response') /\ Free(r)' /\ UNCHANGED users
              /\ \A c \in NewCredentials(CredentialIds) :
                   RegisterVerify(r, u, c, i) =>
                     AlreadyUsedError(response') /\ Free(r)' /\ UNCHANGED users
    ]_vars

\* C5 witness: a register/verify presenting an invitation that a registered
\* user has used, and that has not expired, has just been answered 403.
UsedInvitationJustRefused ==
  /\ AlreadyUsedError(response)
  /\ response.kind = "register/verify"
  /\ \E t \in invitation_tokens, u \in users :
       /\ t.token = response.invitationToken
       /\ t.used = TRUE
       /\ t.used_by = u.id
       /\ now <= t.expires_at
  /\ ~UsernameTaken(response.username)

\* C6: at most one user row is ever created per invitation: no two users were
\* created by registrations that presented the same invitation.
OneUserPerInvitation ==
  \A u1, u2 \in users :
    (u1.invitation # EmptyStr /\ u1.invitation = u2.invitation) => u1 = u2

\* C7: a registration for a username that already exists is rejected with 400
\* 'Username already exists', also when the username was free at
\* register/options and is found taken when register/verify writes.
DuplicateUsernameRejected ==
  [][\A r \in Req :
       /\ (RegisterOptionsCheckUsername(r) /\ UsernameTaken(req[r].username)) =>
            response'.status = 400 /\ response'.error = "Username already exists"
       /\ (TxCommit(r) /\ UsernameTaken(req[r].username)) =>
            response'.status = 400 /\ response'.error = "Username already exists"
    ]_vars

\* C8: a user row exists if and only if its passkey credential row and its
\* ten recovery-code rows exist and, when it registered with an invitation,
\* that invitation is marked used and linked to it.
RegistrationAllOrNothing ==
  /\ \A u \in users :
       /\ CredentialsOf(u.id) # {}
       /\ Cardinality({row \in recovery_codes : row.user_id = u.id}) = NumRecoveryCodes
       /\ u.invitation # EmptyStr =>
            \E t \in invitation_tokens :
              t.id = u.invitation /\ t.used = TRUE /\ t.used_by = u.id
  /\ \A c \in passkey_credentials : \E u \in users : u.id = c.user_id
  /\ \A row \in recovery_codes : \E u \in users : u.id = row.user_id
  /\ \A t \in invitation_tokens : t.used = TRUE => \E u \in users : u.id = t.used_by

\* C9: once a login/verify that looked a challenge up has answered, that
\* challenge is no longer stored, so a second verify with the same key finds
\* no login in progress.
ChallengeGoneAfterVerify ==
  (/\ response # NoResponse
   /\ response.kind = "login/verify"
   /\ response.expectedChallenge # 0) =>
    ~(Has(response.username) /\ challenges[response.username] = response.expectedChallenge)

\* C10: no two login/verify submissions are both accepted with the same
\* challenge: two handlers that have both passed verification and updated
\* the counter hold different challenges.
ChallengeAcceptedOnce ==
  \A r1, r2 \in Req :
    (/\ r1 # r2
     /\ At(r1, "login/verify", "respond")
     /\ At(r2, "login/verify", "respond")) =>
      req[r1].expectedChallenge # req[r2].expectedChallenge

\* C11: a setup token enrolls at most one credential.  Under SpecSetup the
\* only credential row that no setup register-verify created is the first
\* account's, so there are at most as many other rows as setup tokens.
OneCredentialPerSetupToken ==
  Cardinality(passkey_credentials \ {NewPasskey(UserId(FirstUser), FirstCredential)})
    <= Cardinality(setup_tokens)

Rejected(status, error) ==
  /\ response' # NoResponse
  /\ response'.status = status
  /\ response'.error = error

\* C12: an unused invitation or setup token is accepted by every endpoint
\* that takes it at any time before its expires_at and rejected as expired
\* at any time after it; an invitation is minted with expires_at seven days
\* and a setup token thirty minutes after the current time.
TokenExpiryEnforced ==
  [][\A r \in Req :
       /\ \A t \in {x \in invitation_tokens : x.used = FALSE}, u \in Usernames :
            /\ InvitationValidate(r, t.token) =>
                 /\ now < t.expires_at => response'.valid = TRUE
                 /\ now > t.expires_at => response'.valid = FALSE
            /\ RegisterOptions(r, u, t.token) =>
                 /\ now < t.expires_at => At(r, "register/options", "checkUsername")'
                 /\ now > t.expires_at => Rejected(403, "This invitation has expired")
            /\ \A c \in NewCredentials(CredentialIds) :
                 RegisterVerify(r, u, c, t.token) =>
                   /\ now < t.expires_at => At(r, "register/verify", "getChallenge")'
                   /\ now > t.expires_at => Rejected(403, "This invitation has expired")
       /\ \A t \in {x \in setup_tokens : x.used = FALSE} :
            /\ SetupTokenValidate(r, t.token) =>
                 /\ now < t.expires_at => response'.status = 200 /\ response'.valid = TRUE
                 /\ now > t.expires_at => Rejected(400, "This setup token has expired")
            /\ SetupRegisterOptions(r, t.token) =>
                 /\ now < t.expires_at => At(r, "setup-token/register-options", "store")'
                 /\ now > t.expires_at => Rejected(400, "This setup token has expired")
            /\ \A c \in NewCredentials(CredentialIds) :
                 SetupRegisterVerify(r, t.token, c) =>
                   /\ now < t.expires_at =>
                        At(r, "setup-token/register-verify", "getChallenge")'
                   /\ now > t.expires_at => Rejected(400, "This setup token has expired")
       /\ \A h \in AuthHeaders :
            /\ (InvitationGenerate(r, h) /\ authenticate(h)) =>
                 \E t \in invitation_tokens' \ invitation_tokens :
                   t.expires_at = now + 604800
            /\ (SetupTokenGenerate(r, h) /\ authenticate(h)) =>
                 \E t \in setup_tokens' \ setup_tokens : t.expires_at = now + 1800
    ]_vars

\* C12 witness: one second after the expiry of an unused setup token, a
\* setup register-verify presenting it has just been rejected as expired.
ExpiredSetupTokenJustRejected ==
  /\ response # NoResponse
  /\ response.kind = "setup-token/register-verify"
  /\ response.error = "This setup token has expired"
  /\ \E t \in setup_tokens :
       t.token = response.setupToken /\ t.used = FALSE /\ now = t.expires_at + 1

\* C13: while no user exists, register/options and register/verify without
\* an invitation token are not refused, the transaction of such a
\* register/verify creates the user with is_initial_user = TRUE, and the
\* request is answered 200.
FirstRegistrationNeedsNoInvitation ==
  [][\A r \in Req, u \in Usernames :
       /\ (users = {} /\ RegisterOptions(r, u, EmptyStr)) =>
            At(r, "register/options", "checkUsername")'
       /\ (users = {} /\ RegisterOptionsCheckUsername(r)) =>
            At(r, "register/options", "store")'
       /\ \A c \in NewCredentials(CredentialIds) :
            (users = {} /\ RegisterVerify(r, u, c, EmptyStr)) =>
              At(r, "register/verify", "getChallenge")' /\ req'[r].isFirstUser = TRUE
       /\ (/\ TxCommit(r)
           /\ req[r].isFirstUser
           /\ ~UsernameTaken(req[r].username)
           /\ ~CredentialIdTaken(req[r].credential.id)) =>
            /\ \E row \in users' \ users :
                 row.username = req[r].username /\ row.is_initial_user = TRUE
            /\ At(r, "register/verify", "respond")'
       /\ RegisterVerifyRespond(r) => response'.status = 200
    ]_vars

\* C13 witness: the first registration, made without an invitation token, has
\* just been answered 200 and its user is the initial user.
FirstUserJustRegistered ==
  /\ response # NoResponse
  /\ response.kind = "register/verify"
  /\ response.status = 200
  /\ response.invitationToken = EmptyStr
  /\ response.isFirstUser = TRUE
  /\ users = {NewUser(response.username, TRUE, EmptyStr)}

\* C14: while at least one user exists, a register/options or
\* register/verify request without an invitation token is answered 403
\* 'Registration requires an invitation', stores no challenge and creates no
\* user.
RegistrationRequiresInvitation ==
  [][\A r \in Req, u \in Usernames :
       /\ (users # {} /\ RegisterOptions(r, u, EmptyStr)) =>
            /\ Rejected(403, "Registration requires an invitation")
            /\ Free(r)'
            /\ UNCHANGED <<challenges, users>>
       /\ \A c \in NewCredentials(CredentialIds) :
            (users # {} /\ RegisterVerify(r, u, c, EmptyStr)) =>
              /\ Rejected(403, "Registration requires an invitation")
              /\ Free(r)'
              /\ UNCHANGED <<challenges, users>>
    ]_vars

\* C14 witness: with a user registered, a register/verify for a new username
\* without an invitation token has just been answered 403.
UninvitedRegistrationJustRefused ==
  /\ response # NoResponse
  /\ response.kind = "register/verify"
  /\ response.status = 403
  /\ response.error = "Registration requires an invitation"
  /\ response.invitationToken = EmptyStr
  /\ users # {}
  /\ ~UsernameTaken(response.username)

\* C15: what login/verify answers for a username that does not exist and for
\* an existing username with a credential that is not one of its own is the
\* same, whatever the challenge map holds: without a challenge under the
\* username 400 'No login in progress', with one 400 'Authentication failed'.
LoginFailureIsGeneric ==
  [][\A r \in Req :
       /\ \A u \in Usernames, c \in Assertions(CredentialIds) :
            LoginVerify(r, u, c) =>
              IF Has(u) THEN At(r, "login/verify", "find")'
              ELSE Rejected(400, "No login in progress")
       /\ (/\ LoginVerifyFind(r)
           /\ \/ ~UsernameTaken(req[r].username)
              \/ \A row \in CredentialsOf(UserId(req[r].username)) :
                   row.credential_id # req[r].credential.id) =>
            Rejected(400, "Authentication failed")
    ]_vars

\* C15 witness: a login/verify for a username that does not exist, with a
\* challenge stored under it, has just been answered 'Authentication failed'.
UnknownUserJustRefused ==
  /\ response # NoResponse
  /\ response.kind = "login/verify"
  /\ response.status = 400
  /\ response.error = "Authentication failed"
  /\ ~UsernameTaken(response.username)
  /\ response.expectedChallenge # 0

\* C16: login/recovery answers a username that does not exist and an
\* existing username whose unused codes the presented code does not match
\* with the same 400 'Invalid username or recovery code'.
RecoveryFailureIsGeneric ==
  [][\A r \in Req, u \in Usernames, code \in PresentedCodes(Usernames) :
       (/\ LoginRecovery(r, u, code)
        /\ \/ ~UsernameTaken(u)
           \/ \A row \in recovery_codes :
                (row.user_id = UserId(u) /\ row.used = FALSE) =>
                  row.code # bcryptHash([code EXCEPT !.form = "upper"])) =>
         Rejected(400, "Invalid username or recovery code")
    ]_vars

\* C16 witness: a recovery login for a username that does not exist has just
\* been answered with the generic error.
UnknownUserRecoveryJustRefused ==
  /\ response # NoResponse
  /\ response.kind = "login/recovery"
  /\ response.status = 400
  /\ response.error = "Invalid username or recovery code"
  /\ ~UsernameTaken(response.username)

SetupTokenOwner(token) == (CHOOSE t \in setup_tokens : t.token = token).user_id

\* C17: a setup register-verify writes one passkey credential row owned by
\* the token's user and the token's used flag, and nothing else: no users
\* row, recovery-code row or invitation row changes, no other credential row
\* changes, and the session token it issues names the token's owner.
SetupAddsOnlyACredential ==
  [][\A r \in Req :
       /\ SetupRegisterVerifyInsert(r) =>
            /\ passkey_credentials \subseteq passkey_credentials'
            /\ \A c \in passkey_credentials' \ passkey_credentials :
                 /\ c.user_id = SetupTokenOwner(req[r].setupToken)
                 /\ c.credential_id = req[r].credential.id
            /\ Cardinality(passkey_credentials') <= Cardinality(passkey_credentials) + 1
            /\ UNCHANGED <<users, recovery_codes, invitation_tokens, setup_tokens>>
       /\ SetupRegisterVerifyMarkUsed(r) =>
            /\ \A t \in setup_tokens :
                 IF t.token = req[r].setupToken
                 THEN [t EXCEPT !.used = TRUE, !.used_at = now] \in setup_tokens'
                 ELSE t \in setup_tokens'
            /\ Cardinality(setup_tokens') = Cardinality(setup_tokens)
            /\ UNCHANGED <<users, recovery_codes, invitation_tokens, passkey_credentials>>
       /\ SetupRegisterVerifyRespond(r) =>
            /\ response'.status = 200
            /\ response'.token.userId = SetupTokenOwner(req[r].setupToken)
            /\ \E u \in users :
                 u.id = response'.token.userId /\ u.username = response'.token.username
            /\ response'.token \in issued'
            /\ UNCHANGED db
    ]_vars

\* C17 witness: a setup register-verify has just succeeded; there is still
\* one user with its ten recovery codes, and it owns a second credential.
SetupJustAddedACredential ==
  /\ response # NoResponse
  /\ response.kind = "setup-token/register-verify"
  /\ response.status = 200
  /\ users = {NewUser(FirstUser, TRUE, EmptyStr)}
  /\ recovery_codes = NewRecoveryCodes(FirstUser)
  /\ Cardinality(CredentialsOf(UserId(FirstUser))) = 2
  /\ \E t \in setup_tokens : t.token = response.setupToken /\ t.used = TRUE

\* C18: when a later login/options has overwritten the challenge stored
\* under a username, a login/verify for that username with a response made
\* for the overwritten challenge is answered 400 'No login in progress'.
OverwrittenLoginFindsNoLogin ==
  [][\A r \in Req, u \in Usernames, c \in Assertions(CredentialIds) :
       (/\ LoginVerify(r, u, c)
        /\ Has(u)
        /\ c.challenge # 0
        /\ c.challenge < challenges[u]) =>
         Rejected(400, "No login in progress")
    ]_vars

\* The challenge key of the ceremony a request belongs to.
OwnChallengeKey(request) ==
  CASE request.kind \in {"register/options", "register/verify"} ->
         RegisterChallengeKey(request.username, request.invitationToken)
    [] request.kind \in {"login/options", "login/verify"} -> request.username
    [] request.kind \in {"passkeys/add-options", "passkeys/add-verify"} ->
         AddChallengeKey(request.user.userId)
    [] request.kind \in {"setup-token/register-options", "setup-token/register-verify"} ->
         SetupChallengeKey(request.setupToken)
    [] OTHER -> EmptyStr
ChallengeChanged(key) ==
  \/ Has(key) /\ key \notin DOMAIN challenges'
  \/ ~Has(key) /\ key \in DOMAIN challenges'
  \/ Has(key) /\ key \in DOMAIN challenges' /\ challenges'[key] # challenges[key]

\* C19: a step changes or removes only the challenge stored under the key of
\* the ceremony whose options or verify call takes the step; the challenge
\* under every other key stays as it is.
OtherKeysUntouched ==
  [][\A key \in (DOMAIN challenges) \cup (DOMAIN challenges') :
       ChallengeChanged(key) =>
         \E r \in Req : ~Free(r) /\ Free(r)' /\ OwnChallengeKey(req[r]) = key
    ]_vars

\* C19 witness: a verify has just succeeded and removed its own challenge
\* while the challenge of another ceremony is still stored under its key.
OtherChallengeStillStored ==
  /\ response # NoResponse
  /\ response.kind \in {"register/verify", "login/verify", "passkeys/add-verify",
                        "setup-token/register-verify"}
  /\ response.status = 200
  /\ ~Has(OwnChallengeKey(response))
  /\ DOMAIN challenges # {}

\* C20: a challenge that was not consumed within the TTL is unusable: a
\* login/verify that arrives when every stored challenge is older than the
\* TTL is answered 400 'No login in progress'.
AbandonedChallengeUnusable ==
  [][\A r \in Req, u \in Usernames, c \in Assertions(CredentialIds) :
       (LoginVerify(r, u, c) /\ now > ChallengeTTL) =>
         Rejected(400, "No login in progress")
    ]_vars

\* C21: no operation crosses users.  A passkey request authenticated as one
\* user lists only that user's credentials and leaves the credentials of
\* every other user as they are; a login naming a user passes only with a
\* credential that user owns and a recovery login only with a code that user
\* owns, they change no other user's rows, and the session token names that
\* user.
NoOperationCrossesUsers ==
  [][\A r \in Req :
       /\ (/\ Free(r)
           /\ response' # NoResponse
           /\ response'.kind = "passkeys/list"
           /\ response'.status = 200) =>
            \A id \in response'.passkeys :
              \E c \in CredentialsOf(response'.user.userId) : c.id = id
       /\ (PasskeysDeleteRow(r) \/ PasskeysAddVerifyInsert(r)) =>
            /\ \A u \in users :
                 u.id # req[r].user.userId => CredentialsOf(u.id)' = CredentialsOf(u.id)
            /\ \A c \in passkey_credentials' \ passkey_credentials :
                 c.user_id = req[r].user.userId
       /\ (LoginVerifyFind(r) /\ At(r, "login/verify", "updateCounter")') =>
            \E c \in CredentialsOf(UserId(req[r].username)) :
              c.credential_id = req[r].credential.id
       /\ LoginVerifyUpdateCounter(r) =>
            \A u \in users :
              u.id # UserId(req[r].username) => CredentialsOf(u.id)' = CredentialsOf(u.id)
       /\ LoginVerifyRespond(r) =>
            response'.token = JwtSign(UserId(req[r].username), req[r].username)
       /\ (Free(r) /\ At(r, "login/recovery", "markUsed")') =>
            \E row \in recovery_codes :
              /\ row.id = req'[r].matchedCodeId
              /\ row.user_id = UserId(req'[r].username)
              /\ row.code = bcryptHash([req'[r].recoveryCode EXCEPT !.form = "upper"])
       /\ LoginRecoveryMarkUsed(r) =>
            /\ \A row \in recovery_codes :
                 row.user_id # UserId(req[r].username) => row \in recovery_codes'
            /\ response'.token = JwtSign(UserId(req[r].username), req[r].username)
    ]_vars

\* C21 witness: a user who owns two credentials has just asked to delete a
\* credential of the other user; the answer is 404 and the other user's
\* credential is still there.
OthersCredentialJustKept ==
  /\ response # NoResponse
  /\ response.kind = "passkeys/delete"
  /\ response.status = 404
  /\ \E c \in passkey_credentials :
       c.id = response.passkeyId /\ c.user_id # response.user.userId

\* C25: each of a user's two next-up lists, the fiction and the nonfiction
\* books with a non-null next_up_order, holds no more than 10 books.
NextUpListsAreShort ==
  \A u \in users, category \in BookCategories :
    Cardinality(NextUpList(u.id, category)) <= MaxNextUp

\* A request with header h to one of the endpoints behind authenticate.
AuthenticatedRequest(r, h) ==
  \/ InvitationGenerate(r, h)
  \/ SetupTokenGenerate(r, h)
  \/ PasskeysList(r, h)
  \/ PasskeysAddOptions(r, h)
  \/ \E c \in AuthCredentials : PasskeysAddVerify(r, h, c)
  \/ PasskeysDelete(r, h, PasskeyId(FirstCredential.id))
  \/ BooksList(r, h)
  \/ BooksCreate(r, h, AuthBook)
  \/ BooksUpdate(r, h, BookId(1), AuthBookUpdate)
  \/ BooksDelete(r, h, BookId(1))
  \/ BooksAddToNextUp(r, h, BookId(1))
  \/ BooksRemoveFromNextUp(r, h, BookId(1))
  \/ BooksReorderNextUp(r, h, AuthReorder)

\* C22: a request to an endpoint behind authenticate whose Authorization
\* header is absent, is not of the form 'Bearer <token>', or carries a token
\* that was not signed by the server or has expired, is answered 401; no
\* handler runs and no table, challenge or token changes.
UnauthenticatedIsRefused ==
  [][\A r \in Req, h \in AnyAuthHeaders :
       (/\ AuthenticatedRequest(r, h)
        /\ \/ h.scheme = ""
           \/ h.scheme # "Bearer" \/ h.parts # 2
           \/ h.token \notin issued
           \/ now >= h.token.exp) =>
         /\ Free(r)'
         /\ response' # NoResponse
         /\ response'.status = 401
         /\ UNCHANGED <<db, books, nextBook, challenges, nextChallenge, issued>>
    ]_vars

\* C22 witness: a request carrying a session token the server issued, thirty
\* days or more after it was issued, has just been answered 401.
ExpiredTokenJustRefused ==
  /\ response # NoResponse
  /\ response.status = 401
  /\ response.error = "Invalid or expired token"
  /\ response.user \in issued
  /\ now >= response.user.exp

\* The session token a step has just issued for a user: signed now, with the
\* user's id and name, expiring thirty days from now.
IssuedFor(userId, username) ==
  /\ response' # NoResponse
  /\ response'.status = 200
  /\ response'.token \in issued'
  /\ response'.token.userId = userId
  /\ response'.token.username = username
  /\ response'.token.exp = now + 2592000
  /\ \E u \in users : u.id = userId /\ u.username = username

\* C23: the session token issued by a registration, a login, a recovery
\* login or a setup completion names the user it was issued for and expires
\* thirty days after it was issued; until then verify-token and authenticate
\* accept it and give back exactly that user id and username, and from then
\* on they answer 401.
SessionTokenRoundTrip ==
  [][\A r \in Req :
       /\ RegisterVerifyRespond(r) => IssuedFor(UserId(req[r].username), req[r].username)
       /\ LoginVerifyRespond(r) => IssuedFor(UserId(req[r].username), req[r].username)
       /\ LoginRecoveryMarkUsed(r) => IssuedFor(UserId(req[r].username), req[r].username)
       /\ SetupRegisterVerifyRespond(r) =>
            IssuedFor(SetupTokenOwner(req[r].setupToken),
                      (CHOOSE u \in users : u.id = SetupTokenOwner(req[r].setupToken)).username)
       /\ \A t \in issued :
            /\ VerifyToken(r, t) =>
                 IF now < t.exp
                 THEN /\ response'.status = 200
                      /\ response'.valid = TRUE
                      /\ response'.user = [id |-> t.userId, username |-> t.username]
                 ELSE response'.status = 401 /\ response'.valid = FALSE
            /\ PasskeysList(r, [scheme |-> "Bearer", parts |-> 2, token |-> t]) =>
                 IF now < t.exp
                 THEN /\ response'.status = 200
                      /\ response'.user.userId = t.userId
                      /\ response'.user.username = t.username
                 ELSE response'.status = 401
    ]_vars

\* C23 witness: a token that was issued after the server started has just
\* been accepted by verify-token one second before its thirty days are over.
TokenValidatedOnItsLastSecond ==
  /\ response # NoResponse
  /\ response.kind = "verify-token"
  /\ response.valid = TRUE
  /\ response.token.exp > SessionTTL
  /\ now = response.token.exp - 1

\* C24: the process runs only with a session-token signing key that is
\* configured and passes the minimum-entropy check: in no running state is
\* the key missing, empty or shorter than the minimum.
SigningKeyIsStrong ==
  server.state = "running" =>
    /\ server.jwtSecret.defined
    /\ server.jwtSecret.length >= MinSecretLength

\* C26: the stored signatureCounter of a credential never decreases: no step
\* of any interleaving of login/verify requests leaves a credential with a
\* counter below the one it had.
CounterNeverDecreases ==
  [][\A c \in passkey_credentials : \A d \in passkey_credentials' :
       d.id = c.id => d.counter >= c.counter]_vars

\* C27: a verify request of the register, login, add-passkey or setup
\* ceremony whose WebAuthn verification is rejected writes nothing to the
\* database and issues no session token: the step that answers 400
\* 'Verification failed' and every earlier step of the same request leave
\* users, credentials, recovery codes, counters, invitation and setup tokens
\* and the issued session tokens as they were.
VerifyKinds ==
  {"register/verify", "login/verify", "passkeys/add-verify", "setup-token/register-verify"}
VerificationRejected(kind) ==
  /\ response.kind = kind
  /\ response.status = 400
  /\ response.error = "Verification failed"
RejectedVerifyWritesNothing ==
  [][/\ (\E kind \in VerifyKinds : VerificationRejected(kind)') => UNCHANGED <<db, issued>>
     /\ \A r \in Req :
          /\ req'[r] # req[r]
          /\ \/ Free(r) /\ req'[r].kind \in VerifyKinds
             \/ req[r].kind \in VerifyKinds /\ req[r].pc \in {"getChallenge", "find"}
          => UNCHANGED <<db, issued>>]_vars
\* A registration with a valid, unused invitation has just been rejected by
\* the verifier.
RegisterVerifyJustRejected ==
  /\ VerificationRejected("register/verify")
  /\ \E t \in invitation_tokens : t.token = response.invitationToken /\ ~t.used

\* C28: register/verify succeeds only if a register/options call with the
\* same (username, invitationToken) pair preceded it; without one it answers
\* 'No registration in progress' and creates nothing.  Where register/options
\* is never called for UninvitedUser, no register/verify for that username
\* succeeds and no such user is ever created.
NeverRequestedNeverRegisters ==
  /\ \A u \in users : u.username # UninvitedUser
  /\ response.kind = "register/verify" /\ response.username = UninvitedUser
       => response.status # 200

\* C29: the invitation is validated again at the verify step.  A
\* register/verify that starts when users exist and its invitation token has
\* been used or has expired, whatever register/options found earlier, answers
\* 403 with the validation's error, and one that starts without an invitation
\* token when a user exists answers 403 'Registration requires an invitation';
\* in both cases the handler is over and no row is written.
RegisterVerifyStarts ==
  Free(1) /\ (req'[1].kind = "register/verify" \/ response'.kind = "register/verify")
Submitted == IF req'[1].kind = "register/verify" THEN req'[1] ELSE response'
Refused(error) ==
  /\ req'[1] = Idle
  /\ response'.status = 403
  /\ response'.error = error
  /\ UNCHANGED <<db, issued>>
InvitationRevalidatedAtVerify ==
  [][RegisterVerifyStarts /\ Submitted.username # EmptyStr /\ users # {} =>
       /\ Submitted.invitationToken = EmptyStr => Refused("Registration requires an invitation")
       /\ \A t \in invitation_tokens :
            t.token = Submitted.invitationToken =>
              /\ t.used => Refused("This invitation has already been used")
              /\ ~t.used /\ t.expires_at < now => Refused("This invitation has expired")]_vars
\* A ceremony whose register/options stored a challenge, which is still
\* there, has just been refused at verify because another registration used
\* its invitation in between.
UsedSinceOptions ==
  /\ response.kind = "register/verify"
  /\ response.status = 403
  /\ response.error = "This invitation has already been used"
  /\ Has(RegisterChallengeKey(response.username, response.invitationToken))

\* C30: login/options answers alike for usernames that exist and usernames
\* that do not: every request with a username is answered 200 and stores a
\* challenge never issued before under that username, and the answer differs
\* only in the allow-list, which holds the user's credential ids or, without
\* a user, nothing.  A login/verify for a username without a user is never
\* answered 200 and issues no token.
CredentialIdsOf(username) ==
  IF UsernameTaken(username)
  THEN {c.credential_id : c \in {d \in passkey_credentials : d.user_id = UserId(username)}}
  ELSE {}
LoginOptionsDoesNotTellUsers ==
  [][/\ response'.kind = "login/options" /\ response'.username # EmptyStr =>
          /\ response'.status = 200
          /\ response'.error = ""
          /\ response'.allowCredentials = CredentialIdsOf(response'.username)
          /\ response'.username \in DOMAIN challenges'
          /\ challenges'[response'.username] = nextChallenge
          /\ nextChallenge' = nextChallenge + 1
          /\ \A k \in DOMAIN challenges : challenges[k] < nextChallenge
     /\ response'.kind = "login/verify" /\ ~UsernameTaken(response'.username) =>
          /\ response'.status \in {400, 500}
          /\ UNCHANGED <<db, issued>>]_vars
\* A login/verify for a username without a user has just been refused, and
\* the challenge login/options stored for that username is there.
UnknownUserRefusedAtVerify ==
  /\ response.kind = "login/verify"
  /\ ~UsernameTaken(response.username)
  /\ response.status = 400
  /\ response.error = "Authentication failed"
  /\ Has(response.username)

\* C31: every user has exactly ten recovery-code rows from the moment its
\* registration commits.  In every state each user owns ten rows and no row
\* is without a user; a step changes the set of rows only by adding the ten
\* rows of a user it creates; and no step makes a used code of a user unused,
\* so the number of unused codes of a user starts at ten and never grows.
CodeIdsOf(userId) == {row.id : row \in {c \in recovery_codes : c.user_id = userId}}
UnusedCodeIdsOf(userId) ==
  {row.id : row \in {c \in recovery_codes : c.user_id = userId /\ ~c.used}}
TenRecoveryCodesPerUser ==
  /\ [](/\ \A u \in users : Cardinality(CodeIdsOf(u.id)) = NumRecoveryCodes
        /\ \A row \in recovery_codes : \E u \in users : u.id = row.user_id)
  /\ [][/\ \A u \in users :
             /\ CodeIdsOf(u.id)' = CodeIdsOf(u.id)
             /\ UnusedCodeIdsOf(u.id)' \subseteq UnusedCodeIdsOf(u.id)
        /\ \A u \in users' \ users :
             UnusedCodeIdsOf(u.id)' = {row.id : row \in NewRecoveryCodes(u.username)}]_vars
\* The second account has registered and used one of its codes, a passkey
\* has been added and one deleted since.
CodesKeptThroughEverything ==
  /\ \E u \in users : u.username = SecondUser
  /\ Cardinality(UnusedCodeIdsOf(UserId(SecondUser))) = NumRecoveryCodes - 1
  /\ \E c \in passkey_credentials : c.credential_id = Str("cred", MaxCredentialIds)
  /\ \A c \in passkey_credentials : c.credential_id # FirstCredential.id

\* C32: invitation tokens, setup tokens and recovery codes have one monotone
\* lifecycle: no step deletes a row, and a row that is used is never written
\* again: its used flag, used_at and (for an invitation) used_by stay as the
\* one consumption set them.
KeptAndWrittenOnce(rows, rowsAfter) ==
  \A t \in rows : \E n \in rowsAfter : n.id = t.id /\ (t.used => n = t)
UsedIsSetOnce ==
  [][/\ KeptAndWrittenOnce(invitation_tokens, invitation_tokens')
     /\ KeptAndWrittenOnce(setup_tokens, setup_tokens')
     /\ KeptAndWrittenOnce(recovery_codes, recovery_codes')]_vars

\* C33: add-verify succeeds only after an add-options call by the same user
\* id.  Where the first account never calls add-options, none of its
\* add-verify requests succeeds and it never owns another credential than
\* the one it registered with.
NoCredentialAddedWithoutAddOptions ==
  /\ \A c \in passkey_credentials :
       c.user_id = UserId(FirstUser) => c.credential_id = FirstCredential.id
  /\ response.kind = "passkeys/add-verify" /\ response.user.userId = UserId(FirstUser)
       => response.status # 200

\* C37: the challenge keys of the four ceremony kinds are pairwise disjoint
\* for every choice of client-supplied usernames and tokens: no two options
\* calls of different ceremony kinds are about to store their challenges
\* under the same key.
Ceremony(kind) ==
  CASE kind \in {"register/options", "register/verify"} -> "register"
    [] kind \in {"login/options", "login/verify"} -> "login"
    [] kind \in {"passkeys/add-options", "passkeys/add-verify"} -> "add"
    [] kind \in {"setup-token/register-options", "setup-token/register-verify"} -> "setup"
    [] OTHER -> "none"
ChallengeKeysDisjoint ==
  \A r1, r2 \in Req :
    /\ req[r1].pc = "store" /\ req[r2].pc = "store"
    /\ Ceremony(req[r1].kind) # "none" /\ Ceremony(req[r2].kind) # "none"
    /\ Ceremony(req[r1].kind) # Ceremony(req[r2].kind)
    => OwnChallengeKey(req[r1]) # OwnChallengeKey(req[r2])

\* C34: reorder-next-up is all-or-nothing.  The step that ends a reorder
\* request either answers success with every listed id a book of the caller
\* whose next_up_order is its index in bookIds and every other book as it
\* was, or answers an error and leaves every book as it was; it never
\* changes a book of another user.
ReorderEnds == req[1].kind = "books/reorder-next-up" /\ req'[1] = Idle
ReorderAllOrNothing ==
  [][ReorderEnds =>
       LET bookIds == req[1].bookIds
           userId == req[1].user.userId
       IN /\ \A b \in books : b.user_id # userId => b \in books'
          /\ \/ /\ response'.status = 200
                /\ \A i \in DOMAIN bookIds :
                     \E b \in books' :
                       b.id = bookIds[i] /\ b.user_id = userId /\ b.next_up_order = i - 1
                /\ \A b \in books : b.id \notin Range(bookIds) => b \in books'
             \/ /\ response'.status # 200
                /\ books' = books]_vars

\* C35: fetchOpenLibraryCoverId asks Open Library for the ISBN-13 when there
\* is one and else for the ISBN-10, returns the first strictly positive id
\* of the edition's covers, and returns null, never throwing, when both
\* ISBNs are absent, the response is not ok, the fetch throws, the covers are
\* missing or empty, or no id is positive.
FirstPositive(covers, id) ==
  \E i \in DOMAIN covers :
    /\ covers[i] = id
    /\ id >= 1
    /\ \A j \in DOMAIN covers : j < i => covers[j] <= 0
CoverIdAsSpecified ==
  response.kind = "fetchOpenLibraryCoverId" =>
    LET present13 == response.isbn13 \notin {NullIsbn, EmptyStr}
        present10 == response.isbn \notin {NullIsbn, EmptyStr}
        reply == response.outcome.reply
        covers == reply.covers
    IN /\ ~response.threw
       /\ present13 => response.url = EditionUrl(response.isbn13)
       /\ ~present13 /\ present10 => response.url = EditionUrl(response.isbn)
       /\ ~present13 /\ ~present10 =>
            response.result = NullCoverId /\ response.outcome.kind = "none"
       /\ response.outcome.kind = "throws" => response.result = NullCoverId
       /\ response.outcome.kind = "response" /\ (~reply.ok \/ ~reply.json) =>
            response.result = NullCoverId
       /\ response.outcome.kind = "response" /\ reply.ok /\ reply.json =>
            IF reply.hasCovers /\ \E i \in DOMAIN covers : covers[i] >= 1
            THEN Len(response.result) = 1 /\ FirstPositive(covers, response.result[1])
            ELSE response.result = NullCoverId
\* An ISBN-10 lookup skipped a deleted cover and a zero and returned the id
\* after them.
CoverFoundAfterInvalidIds ==
  /\ response.kind = "fetchOpenLibraryCoverId"
  /\ response.isbn13 = EmptyStr
  /\ response.url = EditionUrl(Str("isbn", 1))
  /\ response.outcome.kind = "response"
  /\ response.outcome.reply.covers \in {<<0 - 1, 111>>, <<0, 222>>}
  /\ response.result \in {<<111>>, <<222>>}

\* C36: under any interleaving of registration ceremonies at most one user
\* has is_initial_user = TRUE, and a user created without consuming an
\* invitation is the only user there is when its creation commits.
OnlyOneInitialUser ==
  /\ [](\A u1, u2 \in users :
         u1.is_initial_user /\ u2.is_initial_user => u1 = u2)
  /\ [][\A r \in Req :
          TxCommit(r) =>
            \A row \in users' \ users : row.invitation = EmptyStr => users = {}
       ]_vars

\* C38: setup-token enrolment is all-or-nothing: once no enrolment is under
\* way, also after a storage failure between its two writes, a credential
\* enrolled through a setup token exists if and only if that setup token is
\* marked used.
EnrolledBySetupToken(t) ==
  {c \in passkey_credentials : c.credential_id # FirstCredential.id /\ c.user_id = t.user_id}
SetupEnrolmentAllOrNothing ==
  (\A r \in Req : req[r].kind # "setup-token/register-verify") =>
    /\ \A t \in setup_tokens : t.used = TRUE <=> EnrolledBySetupToken(t) # {}
    /\ \A c \in passkey_credentials :
         c.credential_id # FirstCredential.id =>
           \E t \in setup_tokens : t.user_id = c.user_id /\ t.used = TRUE

\* C39: every session token names a user of the store and is issued only by
\* a request that passed WebAuthn verification against the challenge stored
\* for its own ceremony, matched a then-unused recovery code of the user, or
\* presented a then-unused, unexpired setup token of the user.  Where
\* register/options is never called for UninvitedUser, no recovery code or
\* setup token of that user is presented and no login is made in its name,
\* no session token names UninvitedUser.
TokenNamesUser(t) == \E u \in users : u.id = t.userId /\ u.username = t.username
SessionTokensOnlyAfterOwnCeremony ==
  \A t \in issued : TokenNamesUser(t) /\ t.username # UninvitedUser

\* C40: after any sequence of add-to-next-up and remove-from-next-up requests
\* of one user, also when a book already on the list is added and when two
\* adds overlap, the non-null next_up_order values of the user's books are
\* pairwise distinct and are the range 0..n-1.
OnNextUp(userId) == {b \in BooksOf(userId) : b.next_up_order # Null}
NextUpOrdersContiguous ==
  (\A r \in Req : req[r] = Idle) =>
    LET listed == OnNextUp(UserId(FirstUser)) IN
      /\ \A b1, b2 \in listed : b1.next_up_order = b2.next_up_order => b1 = b2
      /\ {b.next_up_order : b \in listed} = 0..(Cardinality(listed) - 1)

====
